---- MODULE Spec2Model ----
(***************************************************************************)
(* A model of the ATAC-seq pipeline (pipeline_atac.py): the GREAT          *)
(* regulatory-domain writer (writeGreat), the replicate peak merger        *)
(* (mergeReplicatePeaks), the peak merger feeding the annotation           *)
(* (mergePeaks, regulatedGenes) and the nearest-gene reduction             *)
(* (regulatedTables).                                                      *)
(*                                                                         *)
(* Coordinates are integers.  Python 3 true division ("/") yields halves,  *)
(* so every value that the code obtains after a division by two is kept    *)
(* in HALF base pairs (twice the value); the fields concerned say so.      *)
(***************************************************************************)
EXTENDS Integers, Sequences, FiniteSets, TLC

\* ------------------------------------------------------------------ bounds
\* Largest number of genes on the chromosome under study.
MaxGenes == 2
\* Gene starts are drawn from 0..MaxPos.
MaxPos == 1
\* basalup and basaldown are drawn from 0..MaxBasal.
MaxBasal == 1
\* maxext is drawn from 0..MaxExt.
MaxExt == 1

\* -------------------------------------------------------- program constants
\* writeGreat: "if nmatched < 21: raise ValueError".
MinChromEnds == 21

\* ----------------------------------------------------------------- helpers
Min(a, b) == IF a <= b THEN a ELSE b
Max(a, b) == IF a >= b THEN a ELSE b
Abs(a) == IF a < 0 THEN 0 - a ELSE a
Range(s) == {s[i] : i \in DOMAIN s}
Last(s) == s[Len(s)]
SeqsUpTo(S, n) == UNION {[1..k -> S] : k \in 0..n}
\* A file of the working directory: whether it exists, and its rows.
NoFile == [exists |-> FALSE, rows |-> <<>>]
File(rows) == [exists |-> TRUE, rows |-> rows]

\* ------------------------------------------------------------ name universes
ChromNames ==
  <<"chr1", "chr2", "chr3", "chr4", "chr5", "chr6", "chr7", "chr8", "chr9",
    "chr10", "chr11", "chr12", "chr13", "chr14", "chr15", "chr16", "chr17",
    "chr18", "chr19", "chr20", "chr21", "chr22", "chr23">>
GeneNames ==
  <<"ENSG01", "ENSG02", "ENSG03", "ENSG04", "ENSG05", "ENSG06", "ENSG07",
    "ENSG08", "ENSG09", "ENSG10", "ENSG11", "ENSG12", "ENSG13", "ENSG14",
    "ENSG15", "ENSG16", "ENSG17", "ENSG18", "ENSG19", "ENSG20", "ENSG21",
    "ENSG22", "ENSG23", "ENSG24", "ENSG25", "ENSG26", "ENSG27", "ENSG28",
    "ENSG29", "ENSG30">>
\* The chromosome whose genes vary, and the contigs the code filters out.
FocusChrom == ChromNames[1]
MitoChrom == "chrM"
UnplacedChrom == "chrNT_166"
\* A contig that mergePeaks greps out.
RandomChrom == "chrUn_GL456"

VARIABLES
  \* ---- writeGreat
  locations,     \* argument: sequence of [chrom, gstart, gend, strand, gid]
  basalup,       \* argument
  basaldown,     \* argument
  maxext,        \* argument
  half,          \* argument
  contigs,       \* rows of assembly.dir/contigs.bed.gz: [contig, end]
  genome,        \* the dict, in insertion order: sequence of [contig, locs]
  nmatched,      \* number of chromosome ends registered
  greatBed,      \* rows [contig, regstart, regend, gid] (half base pairs)
  great_outfile, \* the file written: [exists, rows]
  gpc,           \* position in writeGreat
  \* ---- mergeReplicatePeaks
  infiles,       \* argument: the replicate peak files, each a sequence of rows
  rep_overlaps,  \* PARAMS["replicates_overlap"]
  tmpfile,       \* the .tmp file: [exists, rows]
  merge_outfile, \* the .merged.bed file: [exists, rows]
  mline,         \* the next line of the .tmp file to read
  mpc,           \* position in mergeReplicatePeaks
  \* ---- mergePeaks, regulatedGenes, regulatedTables
  ensGenes,      \* table ensemblGeneset: [chrom, gstart, gend, strand, gid]
  ens_great,     \* greatBeds.dir/ens_great.bed: [exists, rows]
  merged_peaks,  \* BAM_counts.dir/merged_peaks.bed: [exists, rows]
  regulated,     \* regulated_genes.dir/merged_peaks.GREAT.txt: [exists, rows]
  annotated,     \* the .annotated.bed file: [exists, rows]
  apc,           \* position in the annotation tasks
  \* ---- mergeReplicatePeaksGenerator
  macs2_dir,     \* glob("macs2.dir/*.filt.bed"): sequence of file names
  replicates_auto_merge, \* PARAMS["replicates_auto_merge"]
  replicates_pairs,      \* PARAMS["replicates_pairs"]: lines of names
  jobs,          \* the jobs yielded: sequence of [infiles, outfile]
  genpc,         \* position in the generator
  \* ---- the tasks of the pipeline
  Unpaired,      \* the module flag Unpaired
  started,       \* per task, the number of jobs started
  finished       \* per task, the number of jobs finished

greatVars == <<locations, basalup, basaldown, maxext, half, contigs, genome,
               nmatched, greatBed, great_outfile, gpc>>
mergeVars == <<infiles, rep_overlaps, tmpfile, merge_outfile, mline, mpc>>
annVars == <<ensGenes, ens_great, merged_peaks, regulated, annotated, apc>>
genVars == <<macs2_dir, replicates_auto_merge, replicates_pairs, jobs, genpc>>
schedVars == <<Unpaired, started, finished>>
taskVars == <<genVars, schedVars>>
vars == <<greatVars, mergeVars, annVars, taskVars>>

\* =========================================================================
\* writeGreat
\* =========================================================================

\* chrom[3:5]=="NT" or chrom[3:]=="M", on the names of this model.
IsFilteredContigMut(chrom) == FALSE
IsFilteredContig(chrom) == chrom \in {MitoChrom, UnplacedChrom}

\* strand / tss of one location.
RecordOf(location) ==
  IF location.strand = "-"
  THEN [tss |-> location.gend, strand |-> "minus", gid |-> location.gid]
  ELSE [tss |-> location.gstart, strand |-> "plus", gid |-> location.gid]

HasKey(g, chrom) == \E k \in DOMAIN g : g[k].contig = chrom

\* The loop over locations that fills the dict (lines 139-152): a key per
\* retained chromosome, in order of first appearance, holding the records of
\* that chromosome in input order.
BuildGenome(locs) ==
  LET Retained(location) == ~IsFilteredContig(location.chrom)
      kept == SelectSeq(locs, Retained)
      IsFirst(i) == \A j \in 1..(i - 1) : kept[j].chrom # kept[i].chrom
      first == SelectSeq([i \in DOMAIN kept |-> i], IsFirst)
  IN [k \in DOMAIN first |->
        LET chrom == kept[first[k]].chrom
            OnChrom(location) == location.chrom = chrom
            mine == SelectSeq(kept, OnChrom)
        IN [contig |-> chrom,
            locs |-> [i \in DOMAIN mine |-> RecordOf(mine[i])]]]

AddEndsMut(g, table) ==
  [genome |-> g, nmatched |-> Len(table)]
\* The loop over the contigs table (lines 158-164): the end of every row
\* whose contig is a key is appended to that key's list, and counted.
AddEnds(g, table) ==
  LET Matched(entry) == HasKey(g, entry.contig)
  IN [genome |->
        [k \in DOMAIN g |->
           LET Mine(entry) == entry.contig = g[k].contig
               ends == SelectSeq(table, Mine)
           IN [contig |-> g[k].contig,
               locs |-> g[k].locs \o
                 [i \in DOMAIN ends |->
                    [tss |-> ends[i].end, strand |-> "end", gid |-> "end"]]]],
      nmatched |-> Len(SelectSeq(table, Matched))]

NotEnoughEndsMut(n) == n <= MinChromEnds
\* if nmatched < 21: raise ValueError
NotEnoughEnds(n) == n < MinChromEnds

\* list.sort(key = entry[0]): stable.
RECURSIVE SortByTss(_)
SortByTssMut(locs) == locs
\* The sort of line 170: a stable sort on the first field of the records, so
\* records with the same TSS keep the order they were appended in.
SortByTss(locs) ==
  IF locs = <<>> THEN <<>>
  ELSE LET n == Len(locs)
           front == SortByTss(SubSeq(locs, 1, n - 1))
           x == locs[n]
           k == Cardinality({i \in DOMAIN front : front[i].tss <= x.tss})
       IN SubSeq(front, 1, k) \o <<x>> \o SubSeq(front, k + 1, Len(front))

FrontstopMut(locs, i, bu, bd) == 0
\* Upstream neighbour's basal edge.
Frontstop(locs, i, bu, bd) ==
  IF i = 1 THEN 0
  ELSE IF locs[i - 1].strand = "plus" THEN locs[i - 1].tss + bd
       ELSE locs[i - 1].tss + bu

BackstopMut(locs, i, bu, bd) ==
  IF locs[i + 1].strand = "plus" THEN locs[i + 1].tss + bu
  ELSE locs[i + 1].tss + bd
\* Downstream neighbour's basal edge (locs[i+1] must exist).
Backstop(locs, i, bu, bd) ==
  IF locs[i + 1].strand = "plus" THEN locs[i + 1].tss - bu
  ELSE locs[i + 1].tss - bd

BasalstartMut(rec, bu, bd) == rec.tss - bu
Basalstart(rec, bu, bd) ==
  IF rec.strand = "plus" THEN rec.tss - bu ELSE rec.tss - bd

BasalendMut(rec, bu, bd, contig_end) ==
  IF rec.strand = "plus" THEN rec.tss + bd ELSE rec.tss + bu
Basalend(rec, bu, bd, contig_end) ==
  IF rec.strand = "plus" THEN Min(rec.tss + bd, contig_end)
  ELSE Min(rec.tss + bu, contig_end)

RegstartMut(l, frontstop, basalstart, me, h) ==
  IF h THEN 2 * l - Min(2 * me, l - frontstop)
  ELSE 2 * l - 2 * Min(me, l - frontstop)
\* Upstream extension; the result is in half base pairs.
Regstart(l, frontstop, basalstart, me, h) ==
  IF frontstop > basalstart THEN 2 * basalstart
  ELSE IF h THEN 2 * l - Min(2 * me, l - frontstop)
       ELSE 2 * l - 2 * Min(me, l - frontstop)

RegendUncappedMut(l, backstop, basalend, me, h) ==
  IF backstop < basalend THEN 2 * basalend
  ELSE IF h THEN 2 * l + (backstop - l)
       ELSE 2 * l + 2 * (backstop - l)
RegendMut(l, backstop, basalend, me, h) ==
  IF backstop < basalend THEN 2 * basalend
  ELSE 2 * l + 2 * me
\* Downstream extension; the result is in half base pairs.
Regend(l, backstop, basalend, me, h) ==
  IF backstop < basalend THEN 2 * basalend
  ELSE IF h THEN 2 * l + Min(2 * me, backstop - l)
       ELSE 2 * l + 2 * Min(me, backstop - l)

\* One pass of the inner loop for a gene record at index i.
GreatRow(contig, locs, i, bu, bd, me, h) ==
  LET rec == locs[i]
      contig_end == Last(locs).tss
      frontstop == Frontstop(locs, i, bu, bd)
      backstop == Backstop(locs, i, bu, bd)
      basalstart == Basalstart(rec, bu, bd)
      basalend == Basalend(rec, bu, bd, contig_end)
  IN [contig |-> contig,
      regstart |-> Regstart(rec.tss, frontstop, basalstart, me, h),
      regend |-> Regend(rec.tss, backstop, basalend, me, h),
      gid |-> rec.gid]

\* The gene records of a list that have no locs[i+1]: the walk raises
\* IndexError on them.
NoSuccessor(locs) ==
  {i \in DOMAIN locs : locs[i].strand # "end" /\ i = Len(locs)}

\* The rows of one contig, in list order.
RECURSIVE WalkContig(_, _, _, _, _, _, _)
WalkContig(contig, locs, n, bu, bd, me, h) ==
  IF n = 0 THEN <<>>
  ELSE LET rows == WalkContig(contig, locs, n - 1, bu, bd, me, h)
       IN IF locs[n].strand = "end" THEN rows
          ELSE Append(rows, GreatRow(contig, locs, n, bu, bd, me, h))

\* The sort of every list (lines 169-170).
SortGenome(g) ==
  [k \in DOMAIN g |-> [contig |-> g[k].contig, locs |-> SortByTss(g[k].locs)]]

\* The walk over every contig, in dict order.
RECURSIVE WalkGenome(_, _, _, _, _, _)
WalkGenome(g, n, bu, bd, me, h) ==
  IF n = 0 THEN <<>>
  ELSE WalkGenome(g, n - 1, bu, bd, me, h)
       \o WalkContig(g[n].contig, g[n].locs, Len(g[n].locs), bu, bd, me, h)

\* ---- inputs
\* The gene on every other chromosome, and the registered chromosome end.
FillerGene(c) ==
  [chrom |-> ChromNames[c], gstart |-> 1, gend |-> 2, strand |-> "+",
   gid |-> GeneNames[c + 6]]
ChromEnd == MaxPos + MaxBasal + 1
\* A registered end that lies below the largest TSS.
ShortEnd == MaxPos

FocusGenes == [gstart : 0..MaxPos, strand : {"+", "-"}]
FocusLocations(gs) ==
  [k \in DOMAIN gs |->
     [chrom |-> FocusChrom, gstart |-> gs[k].gstart, gend |-> gs[k].gstart + 1,
      strand |-> gs[k].strand, gid |-> GeneNames[k]]]
FillerLocations(nfill) == [k \in 1..nfill |-> FillerGene(k + 1)]
FillerContigs(nfill) ==
  [k \in 1..nfill |-> [contig |-> ChromNames[k + 1], end |-> ChromEnd]]
MitoGene ==
  [chrom |-> MitoChrom, gstart |-> 1, gend |-> 2, strand |-> "+",
   gid |-> GeneNames[6]]
\* nfill: the number of other chromosomes; focusEnd: the end registered for
\* the focus chromosome (0: the contigs table has no row for it); mito:
\* whether the gene set holds a mitochondrial gene.
EndCases ==
  {[nfill |-> MinChromEnds - 1, focusEnd |-> ChromEnd, mito |-> TRUE],
   [nfill |-> MinChromEnds - 1, focusEnd |-> ShortEnd, mito |-> FALSE],
   [nfill |-> MinChromEnds, focusEnd |-> 0, mito |-> FALSE]}

GreatInit ==
  /\ \E gs \in SeqsUpTo(FocusGenes, MaxGenes), ec \in EndCases :
       /\ locations =
            FocusLocations(gs)
            \o (IF ec.mito THEN <<MitoGene>> ELSE <<>>)
            \o FillerLocations(ec.nfill)
       /\ contigs =
            (IF ec.focusEnd = 0 THEN <<>>
             ELSE <<[contig |-> FocusChrom, end |-> ec.focusEnd]>>)
            \o FillerContigs(ec.nfill)
            \o <<[contig |-> MitoChrom, end |-> ChromEnd]>>
  /\ basalup \in 0..MaxBasal
  /\ basaldown \in 0..MaxBasal
  /\ maxext \in 0..MaxExt
  /\ half \in BOOLEAN
  /\ genome = <<>>
  /\ nmatched = 0
  /\ greatBed = <<>>
  /\ great_outfile = NoFile
  /\ gpc = "start"

\* Lines 139-166: fill the dict, add the chromosome ends, check their number.
GreatLoad ==
  /\ gpc = "start"
  /\ \E g \in {BuildGenome(locations)} : \E r \in {AddEnds(g, contigs)} :
       /\ genome' = r.genome
       /\ nmatched' = r.nmatched
       /\ gpc' = IF NotEnoughEnds(r.nmatched) THEN "ValueError" ELSE "loaded"
  /\ UNCHANGED <<locations, basalup, basaldown, maxext, half, contigs,
                 greatBed, great_outfile>>
  /\ UNCHANGED mergeVars
  /\ UNCHANGED annVars
  /\ UNCHANGED taskVars

\* Lines 168-228: sort every list and walk it.
GreatWalk ==
  /\ gpc = "loaded"
  /\ \E g \in {SortGenome(genome)} :
       /\ genome' = g
       /\ IF \E k \in DOMAIN g : NoSuccessor(g[k].locs) # {}
          THEN /\ gpc' = "IndexError"
               /\ UNCHANGED greatBed
          ELSE /\ gpc' = "walked"
               /\ greatBed' =
                    WalkGenome(g, Len(g), basalup, basaldown, maxext, half)
  /\ UNCHANGED <<locations, basalup, basaldown, maxext, half, contigs,
                 nmatched, great_outfile>>
  /\ UNCHANGED mergeVars
  /\ UNCHANGED annVars
  /\ UNCHANGED taskVars

\* Lines 230-232.
GreatWrite ==
  /\ gpc = "walked"
  /\ great_outfile' = File(greatBed)
  /\ gpc' = "written"
  /\ UNCHANGED <<locations, basalup, basaldown, maxext, half, contigs,
                 genome, nmatched, greatBed>>
  /\ UNCHANGED mergeVars
  /\ UNCHANGED annVars
  /\ UNCHANGED taskVars

\* writeGreat not running (the other operations are studied).
GreatIdle ==
  /\ locations = <<>>
  /\ contigs = <<>>
  /\ basalup = 0
  /\ basaldown = 0
  /\ maxext = 0
  /\ half = FALSE
  /\ genome = <<>>
  /\ nmatched = 0
  /\ greatBed = <<>>
  /\ great_outfile = NoFile
  /\ gpc = "idle"

NextGreat == GreatLoad \/ GreatWalk \/ GreatWrite

\* =========================================================================
\* Properties of writeGreat
\* =========================================================================
\* The state after the walk: genome holds the sorted lists, greatBed the rows.
Emitted == gpc \in {"walked", "written"}
IsGene(rec) == rec.strand # "end"
\* The (k, i) of every gene record of the sorted genome.
GeneSlots == {<<k, i>> \in (DOMAIN genome) \X (1..(MaxGenes + 3)) :
                i \in DOMAIN genome[k].locs /\ IsGene(genome[k].locs[i])}
RowOf(gid) == CHOOSE r \in Range(greatBed) : r.gid = gid
\* The basal domain of section 4.2: upstream/downstream of the TSS by
\* strand, the end clipped to the chromosome end.
BasalStartOf(rec) ==
  IF rec.strand = "plus" THEN rec.tss - basalup ELSE rec.tss - basaldown
UnclippedBasalEndOf(rec) ==
  IF rec.strand = "plus" THEN rec.tss + basaldown ELSE rec.tss + basalup
BasalEndOf(rec, k) == Min(UnclippedBasalEndOf(rec), Last(genome[k].locs).tss)
\* Adjacent gene pairs: consecutive in TSS order on one chromosome.
AdjacentGenes == {s \in GeneSlots : <<s[1], s[2] + 1>> \in GeneSlots}
Overlap(r1, r2) == r1.regstart < r2.regend /\ r2.regstart < r1.regend

\* C4 (as stated): for adjacent genes, the regulatory domain of one never
\* overlaps the basal domain of the other: regend(gene) <= basal start of
\* its successor and regstart(successor) >= basal end of the gene.
C4_NeverOverlapsNeighbourBasal ==
  Emitted =>
    \A s \in AdjacentGenes :
      LET a == genome[s[1]].locs[s[2]]
          b == genome[s[1]].locs[s[2] + 1]
      IN /\ RowOf(a.gid).regend <= 2 * BasalStartOf(b)
         /\ RowOf(b.gid).regstart >= 2 * BasalEndOf(a, s[1])

\* C4 (amended): the part of a regulatory domain that lies outside the
\* gene's own basal domain never overlaps the neighbour's basal domain:
\* regend(gene) <= max(own basal end, basal start of the successor) and
\* regstart(successor) >= min(own basal start, basal end of the gene).
C4_ExtensionStopsAtNeighbourBasal ==
  Emitted =>
    \A s \in AdjacentGenes :
      LET a == genome[s[1]].locs[s[2]]
          b == genome[s[1]].locs[s[2] + 1]
      IN /\ RowOf(a.gid).regend
              <= 2 * Max(BasalEndOf(a, s[1]), BasalStartOf(b))
         /\ RowOf(b.gid).regstart
              >= 2 * Min(BasalStartOf(b), BasalEndOf(a, s[1]))

\* A gene whose domain was extended beyond its basal end up to the basal
\* start of its successor.
C4_Witness ==
  /\ Emitted
  /\ \E s \in AdjacentGenes :
       LET a == genome[s[1]].locs[s[2]]
           b == genome[s[1]].locs[s[2] + 1]
       IN /\ BasalStartOf(b) > BasalEndOf(a, s[1])
          /\ RowOf(a.gid).regend = 2 * BasalStartOf(b)

\* C5 (as stated): the regulatory domains of two distinct genes of one
\* chromosome do not overlap, whatever the half mode.
C5_DomainsDisjoint ==
  Emitted =>
    \A s, t \in GeneSlots :
      (s[1] = t[1] /\ s[2] # t[2]) =>
        ~Overlap(RowOf(genome[s[1]].locs[s[2]].gid),
                 RowOf(genome[t[1]].locs[t[2]].gid))

\* The basal domains of every two adjacent genes of chromosome k are
\* disjoint: the basal end of the first (unclipped, the code's frontstop)
\* is not beyond the basal start of the second.
BasalDisjoint(k) ==
  \A s \in AdjacentGenes :
    s[1] = k =>
      UnclippedBasalEndOf(genome[k].locs[s[2]])
        <= BasalStartOf(genome[k].locs[s[2] + 1])

\* C5 (amended): in half mode, on a chromosome where the basal domains of
\* adjacent genes are disjoint, the regulatory domains of two distinct
\* genes do not overlap.
C5_HalfDomainsDisjoint ==
  (Emitted /\ half) =>
    \A s, t \in GeneSlots :
      (s[1] = t[1] /\ s[2] # t[2] /\ BasalDisjoint(s[1])) =>
        ~Overlap(RowOf(genome[s[1]].locs[s[2]].gid),
                 RowOf(genome[t[1]].locs[t[2]].gid))

\* Half mode, two genes with different TSSs and disjoint basal domains, both
\* extended towards each other.
C5_Witness ==
  /\ Emitted /\ half
  /\ \E s \in AdjacentGenes :
       LET a == genome[s[1]].locs[s[2]]
           b == genome[s[1]].locs[s[2] + 1]
       IN /\ BasalDisjoint(s[1])
          /\ a.tss < b.tss
          /\ RowOf(a.gid).regend > 2 * a.tss
          /\ RowOf(b.gid).regstart < 2 * b.tss

\* C6: every emitted domain contains the TSS of its gene:
\* regstart <= TSS <= regend.
C6_DomainContainsTss ==
  Emitted =>
    \A s \in GeneSlots :
      LET rec == genome[s[1]].locs[s[2]]
      IN RowOf(rec.gid).regstart <= 2 * rec.tss
         /\ 2 * rec.tss <= RowOf(rec.gid).regend

\* Two genes with the same TSS on one chromosome, in half mode, emitted.
C6_Witness ==
  /\ Emitted /\ half
  /\ \E s \in AdjacentGenes :
       genome[s[1]].locs[s[2]].tss = genome[s[1]].locs[s[2] + 1].tss

\* C7 (as stated): every emitted domain contains the basal domain of its
\* gene: regstart <= basal start and regend >= basal end.
C7_DomainContainsBasal ==
  Emitted =>
    \A s \in GeneSlots :
      LET rec == genome[s[1]].locs[s[2]]
      IN RowOf(rec.gid).regstart <= 2 * BasalStartOf(rec)
         /\ RowOf(rec.gid).regend >= 2 * BasalEndOf(rec, s[1])

\* The number of rows of the contigs table whose contig holds a retained gene.
MatchedEnds ==
  Cardinality({i \in DOMAIN contigs :
                 /\ ~IsFilteredContig(contigs[i].contig)
                 /\ \E j \in DOMAIN locations :
                      locations[j].chrom = contigs[i].contig})

\* C10: with fewer than 21 matched chromosome ends writeGreat raises its
\* ValueError with no domain computed and no file written; with 21 or more
\* it does not raise it.
C10_EndsCheck ==
  gpc # "start" =>
    /\ (MatchedEnds < 21) <=> (gpc = "ValueError")
    /\ gpc = "ValueError" => (greatBed = <<>> /\ ~great_outfile.exists)

\* Both sides of the threshold: 20 matched ends raised, 21 went on.
C10_WitnessRaised == gpc = "ValueError" /\ MatchedEnds = 20
C10_WitnessPassed == gpc = "written" /\ MatchedEnds = 21

\* =========================================================================
\* mergeReplicatePeaks
\* =========================================================================
\* The sizes of infiles the function handles (lines 838 and 849).
TwoReplicates == 2
ThreeReplicates == 3

\* The intervals the peaks are drawn from: overlapping, book-ended, nested
\* with equal starts, disjoint, and another contig.
PeakIntervals ==
  {[contig |-> ChromNames[1], start |-> 0, end |-> 2],
   [contig |-> ChromNames[1], start |-> 0, end |-> 3],
   [contig |-> ChromNames[1], start |-> 2, end |-> 4],
   [contig |-> ChromNames[1], start |-> 5, end |-> 6],
   [contig |-> ChromNames[2], start |-> 0, end |-> 2]}
\* The tokens macs2 puts in a peak name: <sample name>_peak_<n>, the sample
\* name being tissue_condition_treatment_replicate.
RepTokens == <<"R1", "R2", "R3">>
\* Row k of replicate file f, a 10-column narrowPeak (BED6+4) row.
PeakRow(iv, f, k) ==
  [contig |-> iv.contig, start |-> iv.start, end |-> iv.end,
   peak_id |-> <<"tissue", "cond", "treat", RepTokens[f], "peak", k>>,
   peak_score |-> 10 * f + k,
   strand |-> IF k % 2 = 1 THEN "+" ELSE "-",
   FC |-> f + 2 * k,
   pval |-> 7 * k - f,
   qval |-> 5 * k - f,
   summit |-> (iv.end - iv.start) \div 2]

\* beda.cat(bedb, postmerge=False) (and .cat(bedc)): every row kept, in
\* file order.
RECURSIVE Cat(_)
Cat(files) ==
  IF files = <<>> THEN <<>>
  ELSE Cat(SubSeq(files, 1, Len(files) - 1)) \o files[Len(files)]

\* The rank of a chromosome name in the sort order.
ChromIndex(c) ==
  IF c = RandomChrom THEN Len(ChromNames) + 1
  ELSE CHOOSE i \in DOMAIN ChromNames : ChromNames[i] = c
\* The key of bedtools sort: chromosome, then start.
KeyLess(a, b) ==
  \/ ChromIndex(a.contig) < ChromIndex(b.contig)
  \/ a.contig = b.contig /\ a.start < b.start
IsSorted(rows) ==
  \A i \in 1..(Len(rows) - 1) : ~KeyLess(rows[i + 1], rows[i])
Perms(n) == {p \in [1..n -> 1..n] : \A i, j \in 1..n : i # j => p[i] # p[j]}
\* .sort(): the rows ordered by chromosome and start.  The order of rows
\* with equal keys is not specified (the sort is not stable): every order
\* is an outcome.
SortOutcomes(rows) ==
  {s \in {[i \in DOMAIN rows |-> rows[p[i]]] : p \in Perms(Len(rows))} :
     IsSorted(s)}
\* The stable outcome.
RECURSIVE StableSort(_)
StableSort(rows) ==
  IF rows = <<>> THEN <<>>
  ELSE LET n == Len(rows)
           front == StableSort(SubSeq(rows, 1, n - 1))
           x == rows[n]
           k == Cardinality({i \in DOMAIN front : ~KeyLess(x, front[i])})
       IN SubSeq(front, 1, k) \o <<x>> \o SubSeq(front, k + 1, Len(front))

\* A mean is kept exact, as <<sum, count>>.
MeanAdd(m, v) == <<m[1] + v, m[2] + 1>>

\* bedtools merge joins a row to the open group when it overlaps it or is
\* book-ended with it (distance 0).
JoinsOverlapMut(g, row) == row.contig = g.contig /\ row.start < g.end
Joins(g, row) == row.contig = g.contig /\ row.start <= g.end

\* A merged row opened by one input row: -c 4,5,6,7,8,9,10
\* -o collapse,mean,first,mean,min,min,mean.
OpenGroup(row) ==
  [contig |-> row.contig, start |-> row.start, end |-> row.end,
   peak_id |-> <<row.peak_id>>,
   peak_score |-> <<row.peak_score, 1>>,
   strand |-> row.strand,
   FC |-> <<row.FC, 1>>,
   pval |-> row.pval,
   qval |-> row.qval,
   summit |-> <<row.summit, 1>>]

ExtendGroupMut(g, row) ==
  [g EXCEPT !.end = row.end,
            !.peak_id = Append(g.peak_id, row.peak_id),
            !.peak_score = MeanAdd(g.peak_score, row.peak_score),
            !.FC = MeanAdd(g.FC, row.FC),
            !.pval = Min(g.pval, row.pval),
            !.qval = Min(g.qval, row.qval),
            !.summit = MeanAdd(g.summit, row.summit)]
ExtendGroup(g, row) ==
  [g EXCEPT !.end = Max(g.end, row.end),
            !.peak_id = Append(g.peak_id, row.peak_id),
            !.peak_score = MeanAdd(g.peak_score, row.peak_score),
            !.FC = MeanAdd(g.FC, row.FC),
            !.pval = Min(g.pval, row.pval),
            !.qval = Min(g.qval, row.qval),
            !.summit = MeanAdd(g.summit, row.summit)]

\* .merge(c=..., o=...) of sorted rows: the merged rows, the last one being
\* the open group.
RECURSIVE MergeBed(_)
MergeBed(sorted) ==
  IF sorted = <<>> THEN <<>>
  ELSE LET n == Len(sorted)
           done == MergeBed(SubSeq(sorted, 1, n - 1))
           row == sorted[n]
       IN IF done # <<>> /\ Joins(Last(done), row)
          THEN [done EXCEPT ![Len(done)] = ExtendGroup(Last(done), row)]
          ELSE Append(done, OpenGroup(row))

\* reps = [x.split("_")[3] for x in peak_id.split(",")]; an id with fewer
\* than four fields raises IndexError.
ShortId(row) == \E i \in DOMAIN row.peak_id : Len(row.peak_id[i]) < 4
Reps(row) == [i \in DOMAIN row.peak_id |-> row.peak_id[i][4]]
CountRepsMut(row) == Len(Reps(row))
\* len(set(reps))
CountReps(row) == Cardinality(Range(Reps(row)))
\* if len(set(reps)) >= rep_overlaps
Keeps(row, overlaps) == CountReps(row) >= overlaps

\* ---- inputs
\* Largest number of peaks of a sample group, all replicates together.
MaxPeaks == 3
\* The ways to cut n rows into nf consecutive files: the cut points.
Cuts(n, nf) ==
  {c \in [0..nf -> 0..n] :
     c[0] = 0 /\ c[nf] = n /\ \A f \in 1..nf : c[f - 1] <= c[f]}
FilesOf(ivs, c, nf) ==
  [f \in 1..nf |->
     [k \in 1..(c[f] - c[f - 1]) |-> PeakRow(ivs[c[f - 1] + k], f, k)]]

MergeInit ==
  /\ \E nf \in 1..ThreeReplicates, ivs \in SeqsUpTo(PeakIntervals, MaxPeaks) :
       \E c \in Cuts(Len(ivs), nf) : infiles = FilesOf(ivs, c, nf)
  /\ rep_overlaps \in 1..ThreeReplicates
  /\ tmpfile = NoFile
  /\ merge_outfile = NoFile
  /\ mline = 0
  /\ mpc = "start"

MergeIdle ==
  /\ infiles = <<>>
  /\ rep_overlaps = 0
  /\ tmpfile = NoFile
  /\ merge_outfile = NoFile
  /\ mline = 0
  /\ mpc = "idle"

\* Lines 838-858: with two or three files, concatenate, sort, merge and save
\* the .tmp file; with any other number nothing is built.
MergeBuildTmp ==
  /\ mpc = "start"
  /\ IF Len(infiles) \in {TwoReplicates, ThreeReplicates}
     THEN \E sorted \in SortOutcomes(Cat(infiles)) :
            tmpfile' = File(MergeBed(sorted))
     ELSE UNCHANGED tmpfile
  /\ mpc' = "built"
  /\ UNCHANGED <<infiles, rep_overlaps, merge_outfile, mline>>
  /\ UNCHANGED greatVars
  /\ UNCHANGED annVars
  /\ UNCHANGED taskVars

\* Lines 860-861: open(outfile, "w") creates or truncates the output, then
\* open(tmp, "r") raises when the .tmp file was not built.
MergeOpen ==
  /\ mpc = "built"
  /\ merge_outfile' = File(<<>>)
  /\ mline' = 1
  /\ mpc' = IF tmpfile.exists THEN "filtering" ELSE "FileNotFoundError"
  /\ UNCHANGED <<infiles, rep_overlaps, tmpfile>>
  /\ UNCHANGED greatVars
  /\ UNCHANGED annVars
  /\ UNCHANGED taskVars

\* Lines 862-875: one line of the .tmp file.
MergeFilterLine ==
  /\ mpc = "filtering"
  /\ mline <= Len(tmpfile.rows)
  /\ LET row == tmpfile.rows[mline]
     IN IF ShortId(row)
        THEN /\ mpc' = "IndexError"
             /\ UNCHANGED <<merge_outfile, mline>>
        ELSE /\ merge_outfile' =
                  IF Keeps(row, rep_overlaps)
                  THEN File(Append(merge_outfile.rows, row))
                  ELSE merge_outfile
             /\ mline' = mline + 1
             /\ UNCHANGED mpc
  /\ UNCHANGED <<infiles, rep_overlaps, tmpfile>>
  /\ UNCHANGED greatVars
  /\ UNCHANGED annVars
  /\ UNCHANGED taskVars

\* Lines 877-879: rm of the .tmp file.
MergeRmTmp ==
  /\ mpc = "filtering"
  /\ mline > Len(tmpfile.rows)
  /\ tmpfile' = NoFile
  /\ mpc' = "done"
  /\ UNCHANGED <<infiles, rep_overlaps, merge_outfile, mline>>
  /\ UNCHANGED greatVars
  /\ UNCHANGED annVars
  /\ UNCHANGED taskVars

NextMerge == MergeBuildTmp \/ MergeOpen \/ MergeFilterLine \/ MergeRmTmp

\* =========================================================================
\* Properties of mergeReplicatePeaks
\* =========================================================================
InputRows == Range(Cat(infiles))
\* Two intervals overlap or touch.
Touch(a, b) == a.contig = b.contig /\ a.start <= b.end /\ b.start <= a.end
\* The peak group of a row: the rows linked to it by a chain of overlapping
\* or touching intervals.
RECURSIVE Grow(_, _)
Grow(S, rows) ==
  LET T == S \cup {r \in rows : \E x \in S : Touch(x, r)}
  IN IF T = S THEN S ELSE Grow(T, rows)
PeakGroups == {Grow({r}, InputRows) : r \in InputRows}
\* The union of the spans of a group, its identifiers and its replicates:
\* the 4th underscore-separated field of every identifier.
GroupSpan(G) ==
  [contig |-> (CHOOSE r \in G : TRUE).contig,
   start |-> CHOOSE v \in {r.start : r \in G} : \A r \in G : v <= r.start,
   end |-> CHOOSE v \in {r.end : r \in G} : \A r \in G : v >= r.end,
   ids |-> {r.peak_id : r \in G}]
GroupReplicates(G) == {r.peak_id[4] : r \in G}
\* What a merged row says of its group.
RowSpan(row) ==
  [contig |-> row.contig, start |-> row.start, end |-> row.end,
   ids |-> Range(row.peak_id)]
Within(x, row) ==
  x.contig = row.contig /\ row.start <= x.start /\ x.end <= row.end

\* C1: a merged peak group is written to the output if and only if the
\* number of distinct replicate tokens among its identifiers is at least
\* replicates_overlap: the members of one replicate count once.
C1_KeptIffEnoughReplicates ==
  /\ \A i \in DOMAIN merge_outfile.rows :
       Cardinality({id[4] : id \in Range(merge_outfile.rows[i].peak_id)})
         >= rep_overlaps
  /\ mpc = "done" =>
       {RowSpan(merge_outfile.rows[i]) : i \in DOMAIN merge_outfile.rows}
         = {GroupSpan(G) : G \in {H \in PeakGroups :
                Cardinality(GroupReplicates(H)) >= rep_overlaps}}

\* Threshold 3: a group of three peaks of only two replicates was dropped.
C1_Witness ==
  /\ mpc = "done" /\ rep_overlaps = 3
  /\ \E G \in PeakGroups :
       Cardinality(G) = 3 /\ Cardinality(GroupReplicates(G)) = 2
  /\ merge_outfile.rows = <<>>

\* C2: the span of every consensus peak is the union of the spans of its
\* contributing intervals (start = least member start, end = greatest member
\* end), and every input interval lies in exactly one merged group.
C2_SpanIsUnion ==
  /\ tmpfile.exists =>
       /\ {RowSpan(tmpfile.rows[i]) : i \in DOMAIN tmpfile.rows}
            = {GroupSpan(G) : G \in PeakGroups}
       /\ \A x \in InputRows :
            Cardinality({i \in DOMAIN tmpfile.rows :
                           Within(x, tmpfile.rows[i])}) = 1
  /\ \A i \in DOMAIN merge_outfile.rows :
       RowSpan(merge_outfile.rows[i]) \in {GroupSpan(G) : G \in PeakGroups}

\* A consensus peak was written whose end is not the end of its last member.
C2_Witness ==
  \E i \in DOMAIN merge_outfile.rows :
    \E x, y \in InputRows :
      /\ Within(x, merge_outfile.rows[i]) /\ Within(y, merge_outfile.rows[i])
      /\ x.start <= y.start /\ y.end < x.end
      /\ merge_outfile.rows[i].end = x.end

\* The whole filter loop (lines 862-875) on the rows of a .tmp file.
FilterRows(rows, overlaps) ==
  LET Kept(row) == Keeps(row, overlaps) IN SelectSeq(rows, Kept)
\* The output of a run on the files in a given order, the sort leaving rows
\* of equal keys in input order.
RunStable(files, overlaps) ==
  FilterRows(MergeBed(StableSort(Cat(files))), overlaps)

\* C8 (as stated): the output is the same whatever the order in which the
\* replicate files are listed, rows of equal chromosome and start included.
\* Stated of the runs whose sort left the rows of equal keys in input order.
C8_OrderIndependent ==
  (mpc = "done" /\ merge_outfile.rows = RunStable(infiles, rep_overlaps)) =>
    \A p \in Perms(Len(infiles)) :
      RunStable([f \in DOMAIN infiles |-> infiles[p[f]]], rep_overlaps)
        = merge_outfile.rows

\* =========================================================================
\* mergePeaks, regulatedGenes, regulatedTables
\* =========================================================================
\* int(PARAMS["read_counts_window"])/2, for an even window.
Offset == 1
\* Largest number of peaks in the runs that go on to the annotation.
MaxAnnPeaks == 2

\* ---- mergePeaks
\* grep -v ^chrUn*
GrepsOut(row) == row.contig = RandomChrom

\* awk: center = $2 + $10; start = center - offset; end = center + offset;
\* print $1,start,end,$4,$5
Window(row) ==
  [contig |-> row.contig,
   start |-> row.start + row.summit - Offset,
   end |-> row.start + row.summit + Offset,
   name |-> row.peak_id,
   score |-> row.peak_score]

\* awk: if (($2 < $3) && ($2 > 0)) print $0
InRange(w) == w.start < w.end /\ w.start > 0

\* mergeBed -c 4,5 -o count,mean of sorted rows.
RECURSIVE MergeCount(_)
MergeCount(sorted) ==
  IF sorted = <<>> THEN <<>>
  ELSE LET n == Len(sorted)
           done == MergeCount(SubSeq(sorted, 1, n - 1))
           w == sorted[n]
           g == Last(done)
       IN IF done # <<>> /\ Joins(g, w)
          THEN [done EXCEPT ![Len(done)] =
                  [contig |-> g.contig, start |-> g.start,
                   end |-> Max(g.end, w.end),
                   count |-> g.count + 1,
                   mean |-> MeanAdd(g.mean, w.score)]]
          ELSE Append(done,
                 [contig |-> w.contig, start |-> w.start, end |-> w.end,
                  count |-> 1, mean |-> <<w.score, 1>>])

\* awk: print $1,$2,$3,"merged_peaks_"NR,$5,$4,$3-$2,sprintf("%i",($2+$3)/2)
MergedPeak(g, NR) ==
  [contig |-> g.contig, start |-> g.start, end |-> g.end,
   peak_id |-> <<"merged", "peaks", NR>>,
   peak_score |-> g.mean,
   no_peaks |-> g.count,
   peak_width |-> g.end - g.start,
   peak_centre |-> (g.start + g.end) \div 2]

\* The statement of mergePeaks on the per-replicate filtered peak files.
\* sort -k1,1 -k2,2n: the order of rows of equal keys does not show in the
\* count and the mean.
MergedPeaks(files) ==
  LET Kept(row) == ~GrepsOut(row)
      tmp == SelectSeq(Cat(files), Kept)
      windows == [i \in DOMAIN tmp |-> Window(tmp[i])]
      groups == MergeCount(StableSort(SelectSeq(windows, InRange)))
  IN [i \in DOMAIN groups |-> MergedPeak(groups[i], i)]

\* ---- filterEnsPromoters
\* sed 's/chrchr/chr/' changes no name of this model; grep -v ^chrM.
FilterEnsPromoters(rows) ==
  LET Kept(row) == row.contig # MitoChrom IN SelectSeq(rows, Kept)

\* ---- regulatedGenes
WriteAMut(a, b) ==
  [a EXCEPT !.start = Max(a.start, b.start), !.end = Min(a.end, b.end)]
\* -wa: the entry of A is written as it is in A.
WriteA(a, b) == a
\* intersectBed reports the pairs that share at least one base.
Intersects(a, b) ==
  a.contig = b.contig /\ a.start < b.end /\ b.start < a.end
\* -wa -wb | cut -f1-8,12
IntersectRow(a, b) ==
  LET w == WriteA(a, b)
  IN [contig |-> w.contig, start |-> w.start, end |-> w.end,
      peak_id |-> w.peak_id, peak_score |-> w.peak_score,
      no_peaks |-> w.no_peaks, peak_width |-> w.peak_width,
      peak_centre |-> w.peak_centre, gene_id |-> b.gene_id]
HitsOf(a, B) ==
  LET Hit(b) == Intersects(a, b)
      hits == SelectSeq(B, Hit)
  IN [j \in DOMAIN hits |-> IntersectRow(a, hits[j])]
RECURSIVE IntersectBed(_, _)
IntersectBed(A, B) ==
  IF A = <<>> THEN <<>>
  ELSE IntersectBed(SubSeq(A, 1, Len(A) - 1), B) \o HitsOf(A[Len(A)], B)

\* ---- regulatedTables
\* getTSS, for the strands "+" and "-".
GetTSS(start, end, strand) == IF strand = "+" THEN start ELSE end

\* The query: the rows of the regulated table joined on gene_id to the great
\* table and to ensemblGeneset (gene_id is unique in both).
Query(reg, great, genes) ==
  LET Matches(r) ==
        /\ \E i \in DOMAIN great : great[i].gene_id = r.gene_id
        /\ \E i \in DOMAIN genes : genes[i].gid = r.gene_id
      sel == SelectSeq(reg, Matches)
  IN [i \in DOMAIN sel |->
        LET e == CHOOSE e \in Range(genes) : e.gid = sel[i].gene_id
        IN [r |-> sel[i], gene_strand |-> e.strand,
            gene_start |-> e.gstart, gene_end |-> e.gend]]

TableRowTruncMut(q) ==
  LET tss == GetTSS(q.gene_start, q.gene_end, q.gene_strand)
      ploc == 2 * ((q.r.start + q.r.end) \div 2)
      tssdist == IF q.gene_strand = "+" THEN 2 * tss - ploc
                 ELSE ploc - 2 * tss
  IN [contig |-> q.r.contig, start |-> q.r.start, end |-> q.r.end,
      peak_id |-> q.r.peak_id, peak_score |-> q.r.peak_score,
      peak_width |-> q.r.peak_width, peak_centre |-> q.r.peak_centre,
      tssdist |-> tssdist, gene_id |-> q.r.gene_id, tss |-> tss]
TableRowMut(q) ==
  LET tss == GetTSS(q.gene_start, q.gene_end, q.gene_strand)
      ploc == q.r.start + q.r.end
      tssdist == IF q.gene_strand = "+" THEN ploc - 2 * tss
                 ELSE 2 * tss - ploc
  IN [contig |-> q.r.contig, start |-> q.r.start, end |-> q.r.end,
      peak_id |-> q.r.peak_id, peak_score |-> q.r.peak_score,
      peak_width |-> q.r.peak_width, peak_centre |-> q.r.peak_centre,
      tssdist |-> tssdist, gene_id |-> q.r.gene_id, tss |-> tss]
\* One pass of the loop over sqlresult (lines 1324-1341).  ploc is
\* (pstart + pend)/2, so tssdist is kept in half base pairs.
TableRow(q) ==
  LET tss == GetTSS(q.gene_start, q.gene_end, q.gene_strand)
      ploc == q.r.start + q.r.end
      tssdist == IF q.gene_strand = "+" THEN 2 * tss - ploc
                 ELSE ploc - 2 * tss
  IN [contig |-> q.r.contig, start |-> q.r.start, end |-> q.r.end,
      peak_id |-> q.r.peak_id, peak_score |-> q.r.peak_score,
      peak_width |-> q.r.peak_width, peak_centre |-> q.r.peak_centre,
      tssdist |-> tssdist, gene_id |-> q.r.gene_id, tss |-> tss]

\* sed 's/-//g': the only "-" of a line of this model is the sign of tssdist.
Sed(row) == [row EXCEPT !.tssdist = Abs(row.tssdist)]

GeneIndex(gid) == CHOOSE i \in DOMAIN GeneNames : GeneNames[i] = gid
\* sort -k8,8 -k9,9n -k7,7n on the reordered line: contig, peak start, TSS;
\* then the whole line, whose first field that differs between two
\* candidates of one peak with one TSS is gene_id.
LineLessKeysMut(a, b) ==
  \/ ChromIndex(a.contig) < ChromIndex(b.contig)
  \/ /\ a.contig = b.contig
     /\ \/ a.start < b.start
        \/ a.start = b.start /\ a.tss < b.tss
LineLess(a, b) ==
  \/ ChromIndex(a.contig) < ChromIndex(b.contig)
  \/ /\ a.contig = b.contig
     /\ \/ a.start < b.start
        \/ /\ a.start = b.start
           /\ \/ a.tss < b.tss
              \/ /\ a.tss = b.tss
                 /\ GeneIndex(a.gene_id) < GeneIndex(b.gene_id)
RECURSIVE SortLines(_)
SortLines(rows) ==
  IF rows = <<>> THEN <<>>
  ELSE LET n == Len(rows)
           front == SortLines(SubSeq(rows, 1, n - 1))
           x == rows[n]
           k == Cardinality({i \in DOMAIN front : ~LineLess(x, front[i])})
       IN SubSeq(front, 1, k) \o <<x>> \o SubSeq(front, k + 1, Len(front))

UniqMut(rows) == rows
\* uniq -f7: of every run of lines equal from field 8 on (contig, peak start,
\* peak end), the first is kept.
Uniq(rows) ==
  LET SamePeak(a, b) ==
        a.contig = b.contig /\ a.start = b.start /\ a.end = b.end
      IsFirst(i) == i = 1 \/ ~SamePeak(rows[i - 1], rows[i])
      first == SelectSeq([i \in DOMAIN rows |-> i], IsFirst)
  IN [k \in DOMAIN first |-> rows[first[k]]]

\* The shell statement of regulatedTables (lines 1346-1352).
Reduce(table) == Uniq(SortLines([i \in DOMAIN table |-> Sed(table[i])]))

\* ---- inputs
\* Peaks whose windows are dropped, kept, book-ended, apart, on a contig
\* without genes, and on a contig that is grepped out.
AnnIntervals ==
  {[contig |-> ChromNames[1], start |-> 0, end |-> 2],
   [contig |-> ChromNames[1], start |-> 2, end |-> 4],
   [contig |-> ChromNames[1], start |-> 5, end |-> 6],
   [contig |-> ChromNames[1], start |-> 6, end |-> 8],
   [contig |-> ChromNames[2], start |-> 2, end |-> 4],
   [contig |-> RandomChrom, start |-> 2, end |-> 4]}
\* Gene starts at least MaxBasal from the chromosome start, so that no
\* domain starts below 0.
AnnGenes ==
  [gstart : {MaxBasal + 2 * k : k \in 0..(MaxPos + 1)}, strand : {"+", "-"}]
AnnChromEnd == 2 * (MaxPos + 1) + 2 * MaxBasal + MaxExt + 3

\* greatBeds.dir/ens_great.bed as greatPromoters (writeGreat with half
\* False) and filterEnsPromoters leave it for the chromosome under study.
EnsGreat(locs, bu, bd, me) ==
  LET r == AddEnds(BuildGenome(locs),
                   <<[contig |-> FocusChrom, end |-> AnnChromEnd]>>)
      g == SortGenome(r.genome)
      rows == WalkGenome(g, Len(g), bu, bd, me, FALSE)
  IN FilterEnsPromoters(
       [i \in DOMAIN rows |->
          [contig |-> rows[i].contig,
           start |-> rows[i].regstart \div 2,
           end |-> rows[i].regend \div 2,
           gene_id |-> rows[i].gid]])

\* The gene tables.  Domains of length 0 are left out.
AnnGenesInit(gs, bu, bd, me) ==
  /\ ensGenes = FocusLocations(gs)
  /\ ens_great = File(EnsGreat(FocusLocations(gs), bu, bd, me))
  /\ \A i \in DOMAIN ens_great.rows :
       ens_great.rows[i].start < ens_great.rows[i].end

\* The annotation tasks not running.
AnnIdle ==
  /\ ensGenes = <<>>
  /\ ens_great = NoFile
  /\ merged_peaks = NoFile
  /\ regulated = NoFile
  /\ annotated = NoFile
  /\ apc = "idle"

\* The state when regulatedGenes starts: merged_peaks.bed as mergePeaks
\* leaves it.
TablesInit ==
  /\ \E gs \in SeqsUpTo(AnnGenes, MaxGenes) :
       \E bu \in {0, MaxBasal}, bd \in {0, MaxBasal}, me \in {0, MaxExt} :
         AnnGenesInit(gs, bu, bd, me)
  /\ \E ivs \in SeqsUpTo(AnnIntervals, MaxAnnPeaks) :
       merged_peaks =
         File(MergedPeaks(<<[k \in DOMAIN ivs |-> PeakRow(ivs[k], 1, k)]>>))
  /\ regulated = NoFile
  /\ annotated = NoFile
  /\ apc = "merged"

\* The state when the peak files of one sample group are filtered: one or
\* two replicates, one gene at most.
PipelineInit ==
  /\ \E nf \in 1..TwoReplicates, ivs \in SeqsUpTo(AnnIntervals, MaxAnnPeaks) :
       \E c \in Cuts(Len(ivs), nf) : infiles = FilesOf(ivs, c, nf)
  /\ rep_overlaps \in 1..TwoReplicates
  /\ tmpfile = NoFile
  /\ merge_outfile = NoFile
  /\ mline = 0
  /\ mpc = "start"
  /\ \E gs \in SeqsUpTo(AnnGenes, 1) :
       AnnGenesInit(gs, MaxBasal, MaxBasal, MaxExt)
  /\ merged_peaks = NoFile
  /\ regulated = NoFile
  /\ annotated = NoFile
  /\ apc = "start"

\* ---- actions
\* mergePeaks (lines 1151-1178); it runs once mergeReplicatePeaks is done.
MergePeaks ==
  /\ apc = "start"
  /\ mpc = "done"
  /\ merged_peaks' = File(MergedPeaks(infiles))
  /\ apc' = "merged"
  /\ UNCHANGED <<ensGenes, ens_great, regulated, annotated>>
  /\ UNCHANGED greatVars
  /\ UNCHANGED mergeVars
  /\ UNCHANGED taskVars

\* regulatedGenes (lines 1266-1282).
RegulatedGenes ==
  /\ apc = "merged"
  /\ regulated' = File(IntersectBed(merged_peaks.rows, ens_great.rows))
  /\ apc' = "intersected"
  /\ UNCHANGED <<ensGenes, ens_great, merged_peaks, annotated>>
  /\ UNCHANGED greatVars
  /\ UNCHANGED mergeVars
  /\ UNCHANGED taskVars

\* regulatedTables (lines 1295-1354): the table is written, reduced to the
\* .annotated.bed file and removed.
RegulatedTables ==
  /\ apc = "intersected"
  /\ \E sqlresult \in {Query(regulated.rows, ens_great.rows, ensGenes)} :
       annotated' =
         File(Reduce([i \in DOMAIN sqlresult |-> TableRow(sqlresult[i])]))
  /\ apc' = "reduced"
  /\ UNCHANGED <<ensGenes, ens_great, merged_peaks, regulated>>
  /\ UNCHANGED greatVars
  /\ UNCHANGED mergeVars
  /\ UNCHANGED taskVars

NextTables == RegulatedGenes \/ RegulatedTables
NextPipeline ==
  \/ MergeBuildTmp \/ MergeOpen \/ MergeFilterLine \/ MergeRmTmp
  \/ MergePeaks \/ RegulatedGenes \/ RegulatedTables

\* =========================================================================
\* Properties of the annotation
\* =========================================================================
\* The candidate rows of the table regulatedTables writes before reducing it.
Candidates ==
  LET sqlresult == Query(regulated.rows, ens_great.rows, ensGenes)
  IN {TableRow(sqlresult[i]) : i \in DOMAIN sqlresult}
SamePeakAs(a, b) ==
  a.contig = b.contig /\ a.start = b.start /\ a.end = b.end

\* C3 (as stated): the row kept for a peak carries the candidate gene whose
\* absolute distance from the peak centre to the TSS is least among the
\* candidates of that peak.
C3_KeepsNearestGene ==
  apc = "reduced" =>
    /\ \A c \in Candidates :
         Cardinality({i \in DOMAIN annotated.rows :
                        SamePeakAs(annotated.rows[i], c)}) = 1
    /\ \A i \in DOMAIN annotated.rows : \A c \in Candidates :
         SamePeakAs(annotated.rows[i], c) =>
           annotated.rows[i].tssdist <= Abs(c.tssdist)

\* What the code keeps: the candidate of least TSS.
C3_KeepsLeastTss ==
  apc = "reduced" =>
    \A i \in DOMAIN annotated.rows : \A c \in Candidates :
      SamePeakAs(annotated.rows[i], c) => annotated.rows[i].tss <= c.tss

PeakKey(r) == <<r.contig, r.start, r.end, r.peak_id>>
MergedKeys == {PeakKey(merged_peaks.rows[i]) : i \in DOMAIN merged_peaks.rows}
\* The windows mergePeaks keeps, of the peaks of every replicate file.
Windows ==
  {w \in {Window(x) : x \in {y \in InputRows : ~GrepsOut(y)}} : InRange(w)}
WindowGroups == {Grow({w}, Windows) : w \in Windows}
WindowGroupSpan(G) ==
  <<(CHOOSE w \in G : TRUE).contig,
    CHOOSE v \in {w.start : w \in G} : \A w \in G : v <= w.start,
    CHOOSE v \in {w.end : w \in G} : \A w \in G : v >= w.end,
    Cardinality(G)>>

\* C9 (as stated): every peak of the annotated tables is a peak the replicate
\* merger wrote, supported by at least replicates_overlap distinct
\* replicates.  Read generously: to share a base with a row of the
\* .merged.bed file is to be that row.
C9_AnnotatedAreConsensus ==
  LET Consensus(row) ==
        \E i \in DOMAIN merge_outfile.rows :
          /\ Intersects(merge_outfile.rows[i], row)
          /\ CountReps(merge_outfile.rows[i]) >= rep_overlaps
  IN /\ \A i \in DOMAIN regulated.rows : Consensus(regulated.rows[i])
     /\ \A i \in DOMAIN annotated.rows : Consensus(annotated.rows[i])

\* C9 (amended): every peak of the annotated tables is a row of
\* merged_peaks.bed, and the rows of merged_peaks.bed are the groups of
\* overlapping or book-ended summit windows of the peaks of every replicate
\* file, whatever replicates_overlap is and whatever the replicate merger
\* wrote.
C9_AnnotatedAreMergedPeaks ==
  /\ \A i \in DOMAIN regulated.rows : PeakKey(regulated.rows[i]) \in MergedKeys
  /\ \A i \in DOMAIN annotated.rows : PeakKey(annotated.rows[i]) \in MergedKeys
  /\ merged_peaks.exists =>
       {<<merged_peaks.rows[i].contig, merged_peaks.rows[i].start,
          merged_peaks.rows[i].end, merged_peaks.rows[i].no_peaks>> :
            i \in DOMAIN merged_peaks.rows}
         = {WindowGroupSpan(G) : G \in WindowGroups}

\* Threshold 2: the replicate merger wrote no peak, and a peak called in one
\* replicate only is annotated to a gene.
C9_Witness ==
  /\ apc = "reduced" /\ rep_overlaps = 2
  /\ merge_outfile = File(<<>>)
  /\ annotated.rows # <<>>
  /\ \A i \in DOMAIN regulated.rows : regulated.rows[i].no_peaks = 1

\* =========================================================================
\* Edge inputs of writeGreat and mergeReplicatePeaks: parameters outside
\* their meaningful range, empty inputs, peak names with few fields
\* =========================================================================
\* Largest number of peaks of a sample group in these runs.
MaxEdgePeaks == 2

\* A gene on a contig that is filtered out by chrom[3:5] == "NT".
UnplacedGene ==
  [chrom |-> UnplacedChrom, gstart |-> 1, gend |-> 2, strand |-> "+",
   gid |-> GeneNames[5]]
\* Gene sets: none, genes on filtered contigs only, and 21 chromosomes with
\* at most one gene on the chromosome under study.
EdgeLocations ==
  {<<>>, <<MitoGene>>, <<UnplacedGene, MitoGene>>}
  \cup {FocusLocations(gs) \o FillerLocations(MinChromEnds) :
          gs \in SeqsUpTo(FocusGenes, 1)}
\* The contigs table: every chromosome of the assembly.
EdgeContigs ==
  <<[contig |-> FocusChrom, end |-> ChromEnd]>>
  \o FillerContigs(MinChromEnds)
  \o <<[contig |-> MitoChrom, end |-> ChromEnd],
       [contig |-> UnplacedChrom, end |-> ChromEnd]>>

\* writeGreat is called with whatever pipeline.ini holds: the parameters
\* are drawn from -1 on.
EdgeGreatInit ==
  /\ locations \in EdgeLocations
  /\ contigs = EdgeContigs
  /\ basalup \in (0 - 1)..MaxBasal
  /\ basaldown \in (0 - 1)..MaxBasal
  /\ maxext \in (0 - 1)..MaxExt
  /\ half \in BOOLEAN
  /\ genome = <<>>
  /\ nmatched = 0
  /\ greatBed = <<>>
  /\ great_outfile = NoFile
  /\ gpc = "start"

\* Row k of replicate file f when the sample name has no underscore: the
\* peak name is <sample>_peak_<n>, three fields.
ShortPeakRow(iv, f, k) ==
  [PeakRow(iv, f, k) EXCEPT !.peak_id = <<"sample", "peak", k>>]
\* The files of FilesOf, file s (if any) holding short peak names.
EdgeFilesOf(ivs, c, nf, s) ==
  [f \in 1..nf |->
     [k \in 1..(c[f] - c[f - 1]) |->
        IF f = s THEN ShortPeakRow(ivs[c[f - 1] + k], f, k)
        ELSE PeakRow(ivs[c[f - 1] + k], f, k)]]

\* mergeReplicatePeaks on one to three files, replicates_overlap from 0 on.
EdgeMergeInit ==
  /\ \E nf \in 1..ThreeReplicates,
        ivs \in SeqsUpTo(PeakIntervals, MaxEdgePeaks) :
       \E c \in Cuts(Len(ivs), nf), s \in 0..nf :
         infiles = EdgeFilesOf(ivs, c, nf, s)
  /\ rep_overlaps \in 0..TwoReplicates
  /\ tmpfile = NoFile
  /\ merge_outfile = NoFile
  /\ mline = 0
  /\ mpc = "start"

NextEdge == NextGreat \/ NextMerge

\* ---- properties of the edge inputs
NegativeParameter == basalup < 0 \/ basaldown < 0 \/ maxext < 0
GreatCalled == gpc # "idle"
MergeCalled == mpc # "idle"
MergeFailed == mpc \in {"FileNotFoundError", "IndexError"}

\* C11 (as stated): parameters out of range are rejected before any interval
\* is processed: mergeReplicatePeaks with replicates_overlap < 1 and
\* writeGreat with a negative basalup, basaldown or maxext fail and write no
\* output row.
C11_InvalidParametersRejected ==
  /\ (MergeCalled /\ rep_overlaps < 1) =>
       (merge_outfile.rows = <<>> /\ mpc # "done")
  /\ (GreatCalled /\ NegativeParameter) =>
       /\ greatBed = <<>>
       /\ ~great_outfile.exists
       /\ gpc \in {"start", "ValueError"}

\* No gene of the gene set is on a retained chromosome.
NoRetainedGene ==
  \A i \in DOMAIN locations : IsFilteredContig(locations[i].chrom)
\* A job of two or three replicate files, none with a peak.
EmptyReplicates ==
  /\ Len(infiles) \in {TwoReplicates, ThreeReplicates}
  /\ \A f \in DOMAIN infiles : infiles[f] = <<>>

\* C12 (as stated): empty input is not an error: neither writeGreat on a
\* gene set with no retained gene nor mergeReplicatePeaks on replicate files
\* without peaks raises, and each writes an output without rows.
C12_EmptyInputIsNoError ==
  /\ (GreatCalled /\ NoRetainedGene) =>
       /\ gpc # "ValueError"
       /\ gpc = "written" => great_outfile = File(<<>>)
  /\ (MergeCalled /\ EmptyReplicates) =>
       /\ ~MergeFailed
       /\ mpc = "done" => merge_outfile = File(<<>>)

\* C12 (amended): mergeReplicatePeaks on two or three replicate files
\* without peaks does not raise and writes a consensus file without rows;
\* writeGreat on a gene set with no retained gene raises its ValueError
\* (no chromosome end is registered), with no domain and no file written.
C12_EmptyGeneSetRaises ==
  /\ (GreatCalled /\ NoRetainedGene /\ gpc # "start") =>
       /\ gpc = "ValueError"
       /\ greatBed = <<>>
       /\ ~great_outfile.exists
  /\ (MergeCalled /\ EmptyReplicates) =>
       /\ ~MergeFailed
       /\ merge_outfile.rows = <<>>
       /\ mpc = "done" => merge_outfile = File(<<>>)

\* writeGreat raised on the empty gene set, the contigs table being whole.
C12_Witness ==
  /\ locations = <<>>
  /\ Len(contigs) >= MinChromEnds
  /\ gpc = "ValueError"

\* C13 (as stated): a failed mergeReplicatePeaks leaves no partial output:
\* the output file does not exist or is complete (every row of the .tmp
\* file was read), and the .tmp file is not left behind.
C13_NoPartialOutput ==
  MergeFailed =>
    /\ ~merge_outfile.exists
       \/ (tmpfile.exists /\ mline > Len(tmpfile.rows))
    /\ ~tmpfile.exists

\* =========================================================================
\* writeGreat on coordinates of the size of a genome
\* =========================================================================
\* Gene starts, basal distances and extensions in base pairs.
ScenarioGenes == [gstart : {1000, 5000}, strand : {"+", "-"}]
ScenarioBasalUp == {0, 5000}
ScenarioBasalDown == {0, 1000}
ScenarioMaxExt == {1000, 1000000}
ScenarioContigs ==
  <<[contig |-> FocusChrom, end |-> 10000000]>>
  \o FillerContigs(MinChromEnds - 1)

ScenarioInit ==
  /\ \E gs \in SeqsUpTo(ScenarioGenes, 2) :
       locations = FocusLocations(gs) \o FillerLocations(MinChromEnds - 1)
  /\ contigs = ScenarioContigs
  /\ basalup \in ScenarioBasalUp
  /\ basaldown \in ScenarioBasalDown
  /\ maxext \in ScenarioMaxExt
  /\ half \in BOOLEAN
  /\ genome = <<>>
  /\ nmatched = 0
  /\ greatBed = <<>>
  /\ great_outfile = NoFile
  /\ gpc = "start"

\* Gene A with TSS 1000 (+), then gene B with TSS 5000 (+), basalup 5000,
\* basaldown 1000, maxext 1000000, half False.
IsScenarioAB ==
  /\ Len(locations) >= 2
  /\ locations[1].chrom = FocusChrom /\ locations[2].chrom = FocusChrom
  /\ locations[1].gstart = 1000 /\ locations[1].strand = "+"
  /\ locations[2].gstart = 5000 /\ locations[2].strand = "+"
  /\ basalup = 5000 /\ basaldown = 1000 /\ maxext = 1000000
  /\ ~half

\* C14: in that scenario the regulatory end of gene A is its basal end,
\* 2000: the basal start of gene B (5000 - 5000 = 0) lies before it, and
\* 2000 is less than 1000 + 1000000.  In general, with half False, a gene
\* whose successor's basal edge lies before its basal end ends at its basal
\* end.
C14_EndCappedByNeighbourBasal ==
  Emitted =>
    /\ IsScenarioAB =>
         /\ RowOf(locations[1].gid).regend = 2 * 2000
         /\ RowOf(locations[1].gid).regend < 2 * (1000 + 1000000)
         /\ RowOf(locations[1].gid).gid = GeneNames[1]
    /\ ~half =>
         \A s \in AdjacentGenes :
           LET a == genome[s[1]].locs[s[2]]
               b == genome[s[1]].locs[s[2] + 1]
           IN BasalStartOf(b) < BasalEndOf(a, s[1]) =>
                RowOf(a.gid).regend = 2 * BasalEndOf(a, s[1])

\* The rows of the scenario were written.
C14_Witness == gpc = "written" /\ IsScenarioAB

\* The upstream stop of the gene in slot s: 0 for the first record of a
\* chromosome, else the far basal edge of the preceding record.
FrontstopOf(s) ==
  IF s[2] = 1 THEN 0 ELSE UnclippedBasalEndOf(genome[s[1]].locs[s[2] - 1])

\* C15 (as stated): with half False, a gene whose upstream stop lies more
\* than maxext upstream of it starts maxext before its basal start:
\* regstart = basalstart - maxext.
C15_ExtendsFromBasalStart ==
  (Emitted /\ ~half) =>
    \A s \in GeneSlots :
      LET rec == genome[s[1]].locs[s[2]]
      IN rec.tss - FrontstopOf(s) > maxext =>
           RowOf(rec.gid).regstart = 2 * (BasalStartOf(rec) - maxext)

\* C15 (amended): with half False, a gene whose upstream stop does not lie
\* inside its basal domain and lies at least maxext before its TSS starts
\* maxext before the TSS: regstart = TSS - maxext; a gene whose upstream
\* stop lies inside its basal domain starts at its basal start.
C15_ExtendsFromTss ==
  (Emitted /\ ~half) =>
    \A s \in GeneSlots :
      LET rec == genome[s[1]].locs[s[2]]
      IN /\ (FrontstopOf(s) <= BasalStartOf(rec)
             /\ rec.tss - FrontstopOf(s) >= maxext) =>
               RowOf(rec.gid).regstart = 2 * (rec.tss - maxext)
         /\ FrontstopOf(s) > BasalStartOf(rec) =>
               RowOf(rec.gid).regstart = 2 * BasalStartOf(rec)

\* A gene with a basal distance of 5000 or 1000 upstream and no stop
\* within maxext = 1000 of its TSS, emitted with half False.
C15_Witness ==
  /\ Emitted /\ ~half /\ maxext = 1000
  /\ \E s \in GeneSlots :
       LET rec == genome[s[1]].locs[s[2]]
       IN /\ rec.tss - FrontstopOf(s) > maxext
          /\ FrontstopOf(s) <= BasalStartOf(rec)
          /\ BasalStartOf(rec) < rec.tss

\* C16: the extension is capped.  No emitted domain reaches further than
\* maxext beyond the TSS unless the basal domain itself does:
\* regstart >= min(basalstart, TSS - maxext) and
\* regend <= max(basalend, TSS + maxext), with half True or False.
C16_ExtensionCapped ==
  Emitted =>
    \A s \in GeneSlots :
      LET rec == genome[s[1]].locs[s[2]]
      IN /\ RowOf(rec.gid).regstart >=
              2 * Min(BasalStartOf(rec), rec.tss - maxext)
         /\ RowOf(rec.gid).regend <=
              2 * Max(BasalEndOf(rec, s[1]), rec.tss + maxext)

\* A gene whose neighbours' basal edges lie beyond maxext on both sides is
\* emitted with the domain TSS -/+ maxext, in half mode.
C16_Witness ==
  /\ Emitted /\ half
  /\ \E s \in GeneSlots :
       LET rec == genome[s[1]].locs[s[2]]
       IN /\ rec.tss - FrontstopOf(s) > 2 * maxext
          /\ RowOf(rec.gid).regstart = 2 * (rec.tss - maxext)
          /\ RowOf(rec.gid).regend = 2 * (rec.tss + maxext)
          /\ BasalStartOf(rec) > rec.tss - maxext

\* The input gene records on a retained chromosome: not chrNT..., not chrM.
RetainedInput ==
  {k \in DOMAIN locations :
     locations[k].chrom \notin {MitoChrom, UnplacedChrom}}
RowsFor(location) ==
  {j \in DOMAIN great_outfile.rows :
     /\ great_outfile.rows[j].gid = location.gid
     /\ great_outfile.rows[j].contig = location.chrom}

\* C17: when writeGreat completes, the output holds exactly one row per
\* input gene on a retained chromosome, carrying the id of the gene, and
\* nothing else: no row for a chromosome-end record, none for a gene on a
\* filtered contig.
C17_OneRowPerRetainedGene ==
  gpc = "written" =>
    /\ great_outfile.exists
    /\ \A k \in RetainedInput : Cardinality(RowsFor(locations[k])) = 1
    /\ Len(great_outfile.rows) = Cardinality(RetainedInput)
    /\ \A j \in DOMAIN great_outfile.rows :
         /\ great_outfile.rows[j].gid # "end"
         /\ great_outfile.rows[j].contig \notin {MitoChrom, UnplacedChrom}

\* A completed run on two genes of one chromosome and a mitochondrial gene.
C17_Witness ==
  /\ gpc = "written"
  /\ \E k \in DOMAIN locations : locations[k].chrom = MitoChrom
  /\ Cardinality({k \in DOMAIN locations :
                    locations[k].chrom = FocusChrom}) = MaxGenes

\* C18 (as stated): every emitted row is a well-formed interval,
\* 0 <= start < end, also for a gene whose TSS is closer to the chromosome
\* start than its upstream basal distance.
C18_WellFormedInterval ==
  Emitted =>
    \A j \in DOMAIN greatBed :
      0 <= greatBed[j].regstart /\ greatBed[j].regstart < greatBed[j].regend

\* The end registered in the contigs table for a chromosome.
RegisteredEnds(chrom) == {c.end : c \in {x \in Range(contigs) : x.contig = chrom}}

\* C19: no emitted domain ends beyond the registered end of its chromosome
\* (positions of greatBed are doubled).
C19_EndsWithinChromosome ==
  Emitted =>
    \A j \in DOMAIN greatBed :
      \A e \in RegisteredEnds(greatBed[j].contig) :
        greatBed[j].regend <= 2 * e

\* A gene whose basal domain would pass the chromosome end is emitted with
\* its domain ending at the chromosome end.
C19_Witness ==
  /\ Emitted
  /\ \E s \in GeneSlots :
       LET rec == genome[s[1]].locs[s[2]]
       IN /\ genome[s[1]].contig = FocusChrom
          /\ \E e \in RegisteredEnds(FocusChrom) :
               /\ UnclippedBasalEndOf(rec) > e
               /\ rec.tss <= e
               /\ RowOf(rec.gid).regend = 2 * e

\* The regulatory domains that share at least one base with a peak.
DomainsOver(p) ==
  {j \in DOMAIN ens_great.rows :
     /\ ens_great.rows[j].contig = p.contig
     /\ p.start < ens_great.rows[j].end
     /\ ens_great.rows[j].start < p.end}
AnnotatedRowsOf(p) ==
  {i \in DOMAIN annotated.rows : SamePeakAs(annotated.rows[i], p)}

\* C20: the table written by regulatedTables holds exactly one row for
\* every peak of merged_peaks.bed that shares a base with at least one
\* regulatory domain, and no row for a peak that shares a base with none;
\* a peak under the domains of several genes has one row.
C20_OneRowPerOverlappingPeak ==
  apc = "reduced" =>
    /\ \A k \in DOMAIN merged_peaks.rows :
         Cardinality(AnnotatedRowsOf(merged_peaks.rows[k])) =
           IF DomainsOver(merged_peaks.rows[k]) # {} THEN 1 ELSE 0
    /\ \A i \in DOMAIN annotated.rows :
         \E k \in DOMAIN merged_peaks.rows :
           SamePeakAs(annotated.rows[i], merged_peaks.rows[k])

\* The table is written for a peak under the domains of two genes and a
\* peak under no domain.
C20_Witness ==
  /\ apc = "reduced"
  /\ \E k \in DOMAIN merged_peaks.rows :
       Cardinality({ens_great.rows[j].gene_id :
                      j \in DomainsOver(merged_peaks.rows[k])}) >= 2
  /\ \E k \in DOMAIN merged_peaks.rows :
       DomainsOver(merged_peaks.rows[k]) = {}

\* =========================================================================
\* The reduction of regulatedTables on every order of the joined rows
\* =========================================================================
MaxOrderPeaks == 2
MaxPermRows == 4
\* Peaks whose windows fall under the domains of the genes, alone or merged.
\* The peak 3-6 has its summit at 4: its window merges with that of the
\* peak 2-4 into a peak whose start + end is odd.
OrderIntervals ==
  {iv \in PeakIntervals \cup AnnIntervals :
     iv.contig = FocusChrom /\ iv.start >= 2}
  \cup {[contig |-> FocusChrom, start |-> 3, end |-> 6]}

OrderInit ==
  /\ \E gs \in SeqsUpTo(AnnGenes, MaxGenes) :
       AnnGenesInit(gs, MaxBasal, MaxBasal, MaxExt)
  /\ \E ivs \in SeqsUpTo(OrderIntervals, MaxOrderPeaks) :
       merged_peaks =
         File(MergedPeaks(<<[k \in DOMAIN ivs |-> PeakRow(ivs[k], 1, k)]>>))
  /\ regulated = NoFile
  /\ annotated = NoFile
  /\ apc = "merged"

\* The rows of the table in the order p of the rows the query returns.
TableIn(p) ==
  LET sqlresult == Query(regulated.rows, ens_great.rows, ensGenes)
  IN [i \in DOMAIN sqlresult |-> TableRow(sqlresult[p[i]])]
JoinedRows == Len(Query(regulated.rows, ens_great.rows, ensGenes))

\* C21: the reduction does not depend on the order of the joined rows.
\* For every permutation of the rows the query returns (tables of at most
\* MaxPermRows rows), the shell statement writes the rows the run wrote, in
\* the same order.
C21_ReductionOrderIndependent ==
  (apc = "reduced" /\ JoinedRows <= MaxPermRows) =>
    \A p \in Perms(JoinedRows) : Reduce(TableIn(p)) = annotated.rows

\* The table is reduced for a peak with two candidate genes of one TSS,
\* which tie on contig, peak start and TSS.
C21_Witness ==
  /\ apc = "reduced" /\ JoinedRows <= MaxPermRows
  /\ \E a, b \in Candidates :
       /\ SamePeakAs(a, b)
       /\ a.tss = b.tss
       /\ a.gene_id # b.gene_id

\* The gene of a table row, its TSS by strand, and where the centre of the
\* peak lies along the direction of transcription (positions doubled).
GeneOf(c) == CHOOSE e \in Range(ensGenes) : e.gid = c.gene_id
TssOf(c) == IF GeneOf(c).strand = "+" THEN GeneOf(c).gstart ELSE GeneOf(c).gend
IsDownstream(c) ==
  IF GeneOf(c).strand = "+" THEN c.start + c.end > 2 * TssOf(c)
  ELSE c.start + c.end < 2 * TssOf(c)
IsUpstream(c) ==
  IF GeneOf(c).strand = "+" THEN c.start + c.end < 2 * TssOf(c)
  ELSE c.start + c.end > 2 * TssOf(c)

\* C22 (as stated): the signed TSS distance of a table row is positive for
\* a peak whose centre lies downstream of the TSS in the direction of
\* transcription, and negative for a peak upstream, on either strand.
C22_DownstreamPositive ==
  apc = "reduced" =>
    \A c \in Candidates :
      /\ IsDownstream(c) => c.tssdist > 0
      /\ IsUpstream(c) => c.tssdist < 0

\* C22 (amended): the orientation is the same on both strands, with the
\* other sign: downstream is negative, upstream positive; and the rows of
\* the .annotated.bed file carry the distance without its sign.
C22_DownstreamNegative ==
  apc = "reduced" =>
    /\ \A c \in Candidates :
         /\ IsDownstream(c) => c.tssdist < 0
         /\ IsUpstream(c) => c.tssdist > 0
         /\ Abs(c.tssdist) = Abs(c.start + c.end - 2 * TssOf(c))
    /\ \A i \in DOMAIN annotated.rows :
         /\ annotated.rows[i].tssdist >= 0
         /\ \E c \in Candidates :
              /\ SamePeakAs(c, annotated.rows[i])
              /\ c.gene_id = annotated.rows[i].gene_id
              /\ annotated.rows[i].tssdist = Abs(c.tssdist)

\* The table holds a peak downstream of a plus-strand gene and a peak
\* downstream of a minus-strand gene, and a kept row lost its sign.
C22_Witness ==
  /\ apc = "reduced"
  /\ \E c \in Candidates : GeneOf(c).strand = "+" /\ IsDownstream(c)
  /\ \E c \in Candidates : GeneOf(c).strand = "-" /\ IsDownstream(c)
  /\ \E i \in DOMAIN annotated.rows : \E c \in Candidates :
       /\ SamePeakAs(c, annotated.rows[i])
       /\ c.gene_id = annotated.rows[i].gene_id
       /\ c.tssdist < 0

\* C23: the rows mergeReplicatePeaks writes are in ascending order of
\* chromosome, then start, and are pairwise disjoint: of two rows of one
\* chromosome, the earlier ends before the later starts (they neither overlap
\* nor touch).  This holds of the output at every step of the filter loop.
C23_OutputSortedDisjoint ==
  \A i, j \in DOMAIN merge_outfile.rows :
    i < j =>
      LET a == merge_outfile.rows[i]
          b == merge_outfile.rows[j]
      IN IF a.contig = b.contig THEN a.end < b.start
         ELSE ChromIndex(a.contig) < ChromIndex(b.contig)

\* A finished run wrote two consensus peaks of one chromosome, one of them
\* merged from two peaks that touch or overlap.
C23_Witness ==
  /\ mpc = "done"
  /\ \E i, j \in DOMAIN merge_outfile.rows :
       /\ i < j
       /\ merge_outfile.rows[i].contig = merge_outfile.rows[j].contig
       /\ Len(merge_outfile.rows[i].peak_id) = 2

\* C24 (as stated): every coordinate writeGreat emits is an integer, with
\* half True or False.  The positions of greatBed are doubled, so an
\* integer coordinate is an even value.
C24_IntegerCoordinates ==
  Emitted =>
    \A j \in DOMAIN greatBed :
      greatBed[j].regstart % 2 = 0 /\ greatBed[j].regend % 2 = 0

\* The tasks of the pipeline not running.
SchedIdle ==
  /\ Unpaired = FALSE
  /\ started = <<>>
  /\ finished = <<>>

\* =========================================================================
\* mergeReplicatePeaksGenerator (lines 764-826)
\* =========================================================================
\* A file name is the sequence of its pieces; "macs2.dir/" is left out of
\* every name.  A replicate number is one piece, a digit.
MaxReps == 4
MaxLines == 2
Digits == <<"1", "2", "3", "4", "5", "6", "7", "8", "9">>
Samples == {<<"A", "_", "cond", "_", "treat">>, <<"B", "_", "2", "_", "treat">>}
SizeFilt == ".size_filt"
FiltBed == ".filt.bed"
PeakFile(sample, rep, sized) ==
  sample \o <<"_", rep>> \o (IF sized THEN <<SizeFilt>> ELSE <<>>)
  \o <<"_peaks", FiltBed>>

\* re.match(r"macs2.dir/(.*)_([1-9]).*.filt.bed", p): the places where "_"
\* and a digit 1-9 stand and the rest ends in ".filt.bed"; (.*) is greedy,
\* so the last such place is taken.
MatchPlaces(p) ==
  {i \in 1..(Len(p) - 2) :
     /\ p[i] = "_"
     /\ p[i + 1] \in Range(Digits)
     /\ p[Len(p)] = FiltBed}
Matches(p) == MatchPlaces(p) # {}
SampleOf(p) ==
  SubSeq(p, 1, (CHOOSE i \in MatchPlaces(p) : \A j \in MatchPlaces(p) : j <= i) - 1)
HasSizeFiltMut(p) == FALSE
\* "size_filt" in x
HasSizeFilt(p) == \E i \in DOMAIN p : p[i] = SizeFilt

\* reps[sample].append(rfile) over pfiles: the dict in insertion order.
RECURSIVE GroupBySample(_)
GroupBySample(pfiles) ==
  IF pfiles = <<>> THEN <<>>
  ELSE LET n == Len(pfiles)
           reps == GroupBySample(SubSeq(pfiles, 1, n - 1))
           sample == SampleOf(pfiles[n])
       IN IF \E k \in DOMAIN reps : reps[k].sample = sample
          THEN [k \in DOMAIN reps |->
                  IF reps[k].sample = sample
                  THEN [reps[k] EXCEPT !.files = Append(@, pfiles[n])]
                  ELSE reps[k]]
          ELSE Append(reps, [sample |-> sample, files |-> <<pfiles[n]>>])

\* One pass of "for peaks in peaksets" in auto-merge mode.
AutoJobs(files, peaks) ==
  LET InClass(x) == IF peaks = ".all" THEN ~HasSizeFilt(x) ELSE HasSizeFilt(x)
      pfiles == SelectSeq(files, InClass)
      reps == GroupBySample(pfiles)
  IN [k \in DOMAIN reps |->
        [infiles |-> reps[k].files,
         outfile |-> reps[k].sample \o <<peaks, ".merged.bed">>]]

\* One line of replicates_pairs, split at ",", for one peak set.
PairJobs(reps, peaks) ==
  LET suffix == IF peaks = ".all" THEN <<"_peaks", FiltBed>>
                ELSE <<SizeFilt, "_peaks", FiltBed>>
      out == <<reps[Len(reps)], peaks, ".merged.bed">>
  IN IF Len(reps) = 3
     THEN <<[infiles |-> <<<<reps[1]>> \o suffix, <<reps[2]>> \o suffix>>,
             outfile |-> out]>>
     ELSE IF Len(reps) > 3
     THEN <<[infiles |-> <<<<reps[1]>> \o suffix, <<reps[2]>> \o suffix,
                           <<reps[3]>> \o suffix>>,
             outfile |-> out]>>
     ELSE <<>>
RECURSIVE PairsJobs(_, _)
PairsJobs(lines, peaks) ==
  IF lines = <<>> THEN <<>>
  ELSE PairsJobs(SubSeq(lines, 1, Len(lines) - 1), peaks)
       \o PairJobs(lines[Len(lines)], peaks)

\* ---- inputs
\* The files of one sample and one peak set: replicates 1..n.
RepFiles(sample, n, sized) ==
  [k \in 1..n |-> PeakFile(sample, Digits[k], sized)]
\* A file whose replicate is named R1.
NamedRepFile == PeakFile(<<"A", "_", "cond", "_", "treat">>, "R1", FALSE)
Reverse(seq) == [k \in DOMAIN seq |-> seq[Len(seq) + 1 - k]]
\* A line of replicates_pairs with k fields: k - 1 sample names and the name
\* of the output.
PairLine(k) == [j \in 1..k |-> IF j = k THEN "out" ELSE Digits[j]]

GenInit ==
  /\ replicates_auto_merge \in BOOLEAN
  /\ IF replicates_auto_merge
     THEN /\ \E n \in [Samples \X BOOLEAN -> 0..MaxReps],
                named \in BOOLEAN, rev \in BOOLEAN :
               LET A == <<"A", "_", "cond", "_", "treat">>
                   B == <<"B", "_", "2", "_", "treat">>
                   files ==
                     RepFiles(A, n[<<A, FALSE>>], FALSE)
                     \o RepFiles(B, n[<<B, FALSE>>], FALSE)
                     \o RepFiles(A, n[<<A, TRUE>>], TRUE)
                     \o RepFiles(B, n[<<B, TRUE>>], TRUE)
                     \o (IF named THEN <<NamedRepFile>> ELSE <<>>)
               IN macs2_dir = IF rev THEN Reverse(files) ELSE files
          /\ replicates_pairs = <<>>
     ELSE /\ macs2_dir = <<>>
          /\ replicates_pairs \in
               SeqsUpTo({PairLine(k) : k \in 1..(MaxReps + 1)}, MaxLines)
  /\ jobs = <<>>
  /\ genpc = "start"

GenIdle ==
  /\ macs2_dir = <<>>
  /\ replicates_auto_merge = FALSE
  /\ replicates_pairs = <<>>
  /\ jobs = <<>>
  /\ genpc = "idle"

\* The generator run to its end by the scheduler.  In auto-merge mode
\* m.group(1) raises AttributeError on a name the pattern does not match
\* (the jobs of the peak sets before it were yielded already).
GenAuto ==
  /\ genpc = "start"
  /\ replicates_auto_merge
  /\ LET IsAll(x) == ~HasSizeFilt(x)
         all == SelectSeq(macs2_dir, IsAll)
         sized == SelectSeq(macs2_dir, HasSizeFilt)
         BadIn(fs) == \E k \in DOMAIN fs : ~Matches(fs[k])
     IN IF BadIn(all)
        THEN jobs' = <<>> /\ genpc' = "AttributeError"
        ELSE IF BadIn(sized)
        THEN jobs' = AutoJobs(macs2_dir, ".all") /\ genpc' = "AttributeError"
        ELSE /\ jobs' = AutoJobs(macs2_dir, ".all")
                        \o AutoJobs(macs2_dir, ".size_filt")
             /\ genpc' = "done"
  /\ UNCHANGED <<macs2_dir, replicates_auto_merge, replicates_pairs>>
  /\ UNCHANGED <<greatVars, mergeVars, annVars, schedVars>>

GenPairs ==
  /\ genpc = "start"
  /\ ~replicates_auto_merge
  /\ jobs' = PairsJobs(IF replicates_pairs = <<>> THEN <<<<"">>>>
                       ELSE replicates_pairs, ".all")
             \o PairsJobs(IF replicates_pairs = <<>> THEN <<<<"">>>>
                          ELSE replicates_pairs, ".size_filt")
  /\ genpc' = "done"
  /\ UNCHANGED <<macs2_dir, replicates_auto_merge, replicates_pairs>>
  /\ UNCHANGED <<greatVars, mergeVars, annVars, schedVars>>

NextGen == GenAuto \/ GenPairs


\* C27 (as stated): every job the generator yields, in either mode, has
\* exactly two or exactly three input files.
C27_JobsHaveTwoOrThreeInputs ==
  \A k \in DOMAIN jobs :
    Len(jobs[k].infiles) \in {TwoReplicates, ThreeReplicates}

\* What holds in replicates_pairs mode only.
C27_PairJobsHaveTwoOrThreeInputs ==
  ~replicates_auto_merge => C27_JobsHaveTwoOrThreeInputs

\* The places (job, position) at which a file is an input.
InputPlaces(f) ==
  {<<k, i>> \in (DOMAIN jobs) \X (1..(MaxReps + 1)) :
     i \in DOMAIN jobs[k].infiles /\ jobs[k].infiles[i] = f}
IsPartition ==
  /\ \A n \in DOMAIN macs2_dir : Cardinality(InputPlaces(macs2_dir[n])) = 1
  /\ \A k \in DOMAIN jobs : \A i, j \in DOMAIN jobs[k].infiles :
       /\ SampleOf(jobs[k].infiles[i]) = SampleOf(jobs[k].infiles[j])
       /\ HasSizeFilt(jobs[k].infiles[i]) = HasSizeFilt(jobs[k].infiles[j])
  /\ \A k, l \in DOMAIN jobs : k # l => jobs[k].outfile # jobs[l].outfile

\* C28 (as stated): in auto-merge mode the jobs partition the filtered peak
\* files: every file of macs2.dir/*.filt.bed is an input of exactly one job,
\* the inputs of a job share the sample prefix and the peak-size class, and
\* no two jobs share an output path.
C28_AutoMergePartitions ==
  (replicates_auto_merge /\ genpc # "start") => IsPartition

\* What holds when the generator runs to its end.
C28_PartitionWhenAllMatch ==
  (replicates_auto_merge /\ genpc = "done") => IsPartition

\* =========================================================================
\* The tasks of the pipeline and their declared dependencies (lines 290-1761)
\* =========================================================================
MaxJobs == 2
TaskOrder ==
  <<"connect", "mapBowtie2_PE", "mapBowtie2_SE", "filterBam",
    "removeDuplicates", "size_filterBam", "indexBam", "contigReadCounts",
    "mergeContigCounts", "loadmergeContigCounts", "flagstatBam",
    "loadflagstatBam", "picardAlignmentSummary",
    "loadpicardAlignmentSummary", "picardInsertSizes",
    "loadpicardInsertSizeMetrics", "loadpicardInsertSizeHistogram",
    "mapping", "macs2Predictd", "getFragmentSize", "loadgetFragmentSize",
    "macs2callpeaks", "getChIPblacklist", "getATACblacklist", "filterPeaks",
    "mergeReplicatePeaks", "countPeaks", "loadcountPeaks", "peakcalling",
    "hmmratac", "FRIPcountBAM", "FRIP", "FRIP_table", "loadFRIP_table",
    "frip", "mergePeaks", "fetchEnsemblGeneset", "uploadEnsGenes",
    "getGeneLists", "greatPromoters", "filterEnsPromoters",
    "loadGreatPromoters", "GreatAnnotation", "regulatedGenes",
    "loadRegulatedGenes", "regulatedTables", "loadRegulatedTables", "great",
    "indexBAM", "scoreIntervalsBAM", "normaliseBAMcounts", "mergeNormCounts",
    "loadmergeNormCounts", "count", "indexPrepBam", "bamCoverage",
    "bamCoverage_mononuc", "coverage", "TSSbed", "TSSmatrix", "TSSprofile",
    "TSSheatmap", "TSSplot", "report", "full">>
Tasks == Range(TaskOrder)
\* The tasks a task names in @follows, or as the input of @transform,
\* @merge, @files and add_inputs.
Deps ==
  [connect |-> {},
   mapBowtie2_PE |-> {"connect"},
   mapBowtie2_SE |-> {},
   filterBam |-> {"mapBowtie2_PE", "mapBowtie2_SE"},
   removeDuplicates |-> {"filterBam"},
   size_filterBam |-> {"removeDuplicates"},
   indexBam |-> {"size_filterBam"},
   contigReadCounts |-> {"indexBam"},
   mergeContigCounts |-> {"contigReadCounts"},
   loadmergeContigCounts |-> {"mergeContigCounts"},
   flagstatBam |-> {"loadmergeContigCounts"},
   loadflagstatBam |-> {"flagstatBam"},
   picardAlignmentSummary |-> {"loadflagstatBam"},
   loadpicardAlignmentSummary |-> {"picardAlignmentSummary"},
   picardInsertSizes |-> {"flagstatBam"},
   loadpicardInsertSizeMetrics |-> {"picardInsertSizes"},
   loadpicardInsertSizeHistogram |-> {"picardInsertSizes"},
   mapping |-> {"loadpicardAlignmentSummary",
      "loadpicardInsertSizeHistogram", "loadpicardInsertSizeMetrics"},
   macs2Predictd |-> {"mapping"},
   getFragmentSize |-> {"macs2Predictd"},
   loadgetFragmentSize |-> {"getFragmentSize"},
   macs2callpeaks |-> {"loadgetFragmentSize"},
   getChIPblacklist |-> {"macs2callpeaks"},
   getATACblacklist |-> {"getChIPblacklist"},
   filterPeaks |-> {"getATACblacklist", "getChIPblacklist"},
   mergeReplicatePeaks |-> {"filterPeaks"},
   countPeaks |-> {"mergeReplicatePeaks"},
   loadcountPeaks |-> {"countPeaks"},
   peakcalling |-> {"loadcountPeaks"},
   hmmratac |-> {},
   FRIPcountBAM |-> {"peakcalling"},
   FRIP |-> {"FRIPcountBAM"},
   FRIP_table |-> {"FRIP"},
   loadFRIP_table |-> {"FRIP_table"},
   frip |-> {"loadFRIP_table"},
   mergePeaks |-> {"frip"},
   fetchEnsemblGeneset |-> {"mergePeaks"},
   uploadEnsGenes |-> {"fetchEnsemblGeneset"},
   getGeneLists |-> {"uploadEnsGenes"},
   greatPromoters |-> {"getGeneLists", "uploadEnsGenes"},
   filterEnsPromoters |-> {"greatPromoters"},
   loadGreatPromoters |-> {"filterEnsPromoters"},
   GreatAnnotation |-> {"loadGreatPromoters"},
   regulatedGenes |-> {"GreatAnnotation"},
   loadRegulatedGenes |-> {"regulatedGenes"},
   regulatedTables |-> {"loadGreatPromoters", "loadRegulatedGenes",
      "uploadEnsGenes"},
   loadRegulatedTables |-> {"regulatedTables"},
   great |-> {"loadRegulatedTables"},
   indexBAM |-> {"great"},
   scoreIntervalsBAM |-> {"indexBAM"},
   normaliseBAMcounts |-> {"scoreIntervalsBAM"},
   mergeNormCounts |-> {"normaliseBAMcounts"},
   loadmergeNormCounts |-> {"mergeNormCounts"},
   count |-> {"loadmergeNormCounts"},
   indexPrepBam |-> {"count"},
   bamCoverage |-> {"indexPrepBam"},
   bamCoverage_mononuc |-> {"indexPrepBam"},
   coverage |-> {"bamCoverage"},
   TSSbed |-> {"coverage"},
   TSSmatrix |-> {"TSSbed"},
   TSSprofile |-> {"TSSmatrix"},
   TSSheatmap |-> {"TSSmatrix"},
   TSSplot |-> {"TSSheatmap", "TSSprofile"},
   report |-> {"TSSplot"},
   full |-> {"TSSplot", "count", "coverage", "frip", "mapping",
      "peakcalling"}]
\* Tasks of one job per input file (@transform) or per generated job.
ManyJobTasks ==
  {
   "mapBowtie2_PE", "mapBowtie2_SE", "filterBam", "removeDuplicates",
   "size_filterBam", "indexBam", "contigReadCounts", "loadmergeContigCounts",
   "flagstatBam", "picardAlignmentSummary", "picardInsertSizes",
   "macs2Predictd", "getFragmentSize", "loadgetFragmentSize",
   "macs2callpeaks", "filterPeaks", "mergeReplicatePeaks", "loadcountPeaks",
   "hmmratac", "FRIPcountBAM", "FRIP", "loadFRIP_table", "uploadEnsGenes",
   "filterEnsPromoters", "loadGreatPromoters", "regulatedGenes",
   "loadRegulatedGenes", "regulatedTables", "loadRegulatedTables",
   "indexBAM", "scoreIntervalsBAM", "normaliseBAMcounts",
   "loadmergeNormCounts", "indexPrepBam", "bamCoverage",
   "bamCoverage_mononuc", "TSSmatrix", "TSSprofile", "TSSheatmap"}
\* @active_if(Unpaired)
UnpairedTasks ==
  {"mapBowtie2_SE", "macs2Predictd",
   "getFragmentSize", "loadgetFragmentSize"}
\* @active_if(Unpaired == False)
PairedTasks ==
  {"size_filterBam",
   "picardInsertSizes", "bamCoverage_mononuc"}

FollowsMut(t) == IF t = "indexBAM" THEN {} ELSE Deps[t]
Follows(t) == Deps[t]
IsActive(t) ==
  /\ t \in UnpairedTasks => Unpaired
  /\ t \in PairedTasks => ~Unpaired
JobsOf(t) == IF t \in ManyJobTasks THEN MaxJobs ELSE 1
Complete(t) == finished[t] = JobsOf(t)

SchedInit ==
  /\ Unpaired \in BOOLEAN
  /\ started = [t \in Tasks |-> 0]
  /\ finished = [t \in Tasks |-> 0]

\* A job of a task is dispatched when every task it depends on is complete.
StartJob ==
  \E t \in Tasks :
    /\ IsActive(t)
    /\ started[t] < JobsOf(t)
    /\ \A d \in Follows(t) : Complete(d)
    /\ started' = [started EXCEPT ![t] = @ + 1]
    /\ UNCHANGED <<Unpaired, finished>>
    /\ UNCHANGED <<greatVars, mergeVars, annVars, genVars>>

FinishJob ==
  \E t \in Tasks :
    /\ finished[t] < started[t]
    /\ finished' = [finished EXCEPT ![t] = @ + 1]
    /\ UNCHANGED <<Unpaired, started>>
    /\ UNCHANGED <<greatVars, mergeVars, annVars, genVars>>

\* A task switched off by @active_if is passed over, in its place in the
\* order of the tasks.
SkipTask ==
  \E t \in Tasks :
    /\ ~IsActive(t)
    /\ started[t] = 0
    /\ \A d \in Follows(t) : Complete(d)
    /\ started' = [started EXCEPT ![t] = JobsOf(t)]
    /\ finished' = [finished EXCEPT ![t] = JobsOf(t)]
    /\ UNCHANGED Unpaired
    /\ UNCHANGED <<greatVars, mergeVars, annVars, genVars>>

NextSched == StartJob \/ FinishJob \/ SkipTask

TaskIndex(t) == CHOOSE i \in DOMAIN TaskOrder : TaskOrder[i] = t
StageOrder ==
  <<"mapping", "peakcalling", "frip", "great", "count", "coverage", "TSSplot">>

\* C25: the declared dependencies are acyclic (every task depends only on
\* tasks defined before it in the module), no job of a task starts before
\* every task it depends on is complete, the stage targets complete in the
\* order mapping, peakcalling, frip, great, count, coverage, TSSplot, and
\* full completes after all of them.
C25_DependenciesRespected ==
  /\ \A t \in Tasks : \A d \in Follows(t) :
       /\ d \in Tasks
       /\ TaskIndex(d) < TaskIndex(t)
       /\ started[t] > 0 => Complete(d)
  /\ \A i, j \in DOMAIN StageOrder :
       i < j => (started[StageOrder[j]] > 0 => Complete(StageOrder[i]))
  /\ Complete("full") => \A i \in DOMAIN StageOrder : Complete(StageOrder[i])
  /\ started["mergeReplicatePeaks"] > 0 => Complete("filterPeaks")
  /\ started["regulatedGenes"] > 0 =>
       Complete("mergePeaks") /\ Complete("loadGreatPromoters")

\* A run on paired-end data reached the end of full, every job of
\* filterPeaks and mergeReplicatePeaks done.
C25_Witness ==
  /\ ~Unpaired
  /\ Complete("full")
  /\ finished["filterPeaks"] = MaxJobs
  /\ finished["mergeReplicatePeaks"] = MaxJobs

\* C26: mergePeaks writes peak_centre truncated to an integer, and
\* regulatedTables takes the distance from the untruncated (start + end)/2.
\* In the table |TSS distance| is |TSS - peak_centre| when start + end is
\* even and differs from it by exactly 0.5 when start + end is odd (tssdist
\* is kept in half base pairs: 0.5 is 1).
C26_CentreRounding ==
  apc = "reduced" =>
    \A i \in DOMAIN annotated.rows :
      LET r == annotated.rows[i]
          exact == Abs(r.tssdist)
          fromCentre == 2 * Abs(r.tss - r.peak_centre)
      IN /\ 2 * r.peak_centre <= r.start + r.end
         /\ r.start + r.end < 2 * r.peak_centre + 2
         /\ IF (r.start + r.end) % 2 = 0 THEN exact = fromCentre
            ELSE Abs(exact - fromCentre) = 1

\* The table holds a peak whose start + end is odd, merged from two peaks.
C26_Witness ==
  /\ apc = "reduced"
  /\ \E i \in DOMAIN annotated.rows :
       /\ (annotated.rows[i].start + annotated.rows[i].end) % 2 = 1
       /\ annotated.rows[i].tssdist % 2 = 1

\* C29 (as stated): when the check of the chromosome ends passes, the walk
\* never indexes past the end of a sorted list: every gene record has a
\* successor, also on a chromosome with no row in the contigs table and for
\* a gene whose TSS is greater than the registered end.
C29_WalkStaysInRange ==
  /\ gpc # "IndexError"
  /\ gpc \in {"walked", "written"} =>
       \A k \in DOMAIN genome : NoSuccessor(genome[k].locs) = {}

\* ---- the order of the input of writeGreat
OnFocusChrom(location) == location.chrom = FocusChrom
OffFocusChrom(location) == location.chrom # FocusChrom
InputFocus == SelectSeq(locations, OnFocusChrom)
InputRest == SelectSeq(locations, OffFocusChrom)
\* The input with the genes of the focus chromosome permuted by p, placed
\* before or after the genes of the other chromosomes.
Rearranged(p, back) ==
  LET f == [i \in DOMAIN InputFocus |-> InputFocus[p[i]]]
  IN IF back THEN InputRest \o f ELSE f \o InputRest
\* The set of rows writeGreat computes from an input (lines 139-228).
DomainsFrom(locs) ==
  LET r == AddEnds(BuildGenome(locs), contigs)
      g == SortGenome(r.genome)
  IN Range(WalkGenome(g, Len(g), basalup, basaldown, maxext, half))
\* p keeps the relative order of the genes that share a TSS.
KeepsTies(p) ==
  \A i, j \in DOMAIN InputFocus :
    (i < j /\ RecordOf(InputFocus[p[i]]).tss = RecordOf(InputFocus[p[j]]).tss)
      => p[i] < p[j]

\* C30 (as stated): the set of rows of writeGreat is the same for every
\* permutation of the input, also one that reorders genes sharing a TSS.
C30_AnyOrderSameDomains ==
  gpc \in {"walked", "written"} =>
    \A p \in Perms(Len(InputFocus)), back \in BOOLEAN :
      DomainsFrom(Rearranged(p, back)) = Range(greatBed)

\* C30 (amended): the set of rows of writeGreat is the same for every
\* permutation of the input that keeps the relative order of the genes
\* sharing a TSS on a chromosome.
C30_TieKeepingOrderSameDomains ==
  gpc \in {"walked", "written"} =>
    \A p \in Perms(Len(InputFocus)), back \in BOOLEAN :
      KeepsTies(p) => DomainsFrom(Rearranged(p, back)) = Range(greatBed)

\* Two genes of different TSS and different domains were walked, and the
\* permutation that swaps them keeps the ties.
C30_Witness ==
  /\ gpc = "walked"
  /\ Len(InputFocus) >= 2
  /\ \E p \in Perms(Len(InputFocus)) :
       /\ KeepsTies(p)
       /\ p[1] # 1
  /\ \E a, b \in Range(greatBed) :
       /\ a.contig = FocusChrom
       /\ b.contig = FocusChrom
       /\ a.gid # b.gid
       /\ <<a.regstart, a.regend>> # <<b.regstart, b.regend>>

\* =========================================================================
\* Specifications
\* =========================================================================
InitGreat == GreatInit /\ MergeIdle /\ AnnIdle /\ GenIdle /\ SchedIdle
SpecGreat == InitGreat /\ [][NextGreat]_vars

InitMerge == MergeInit /\ GreatIdle /\ AnnIdle /\ GenIdle /\ SchedIdle
SpecMerge == InitMerge /\ [][NextMerge]_vars

InitTables == TablesInit /\ GreatIdle /\ MergeIdle /\ GenIdle /\ SchedIdle
SpecTables == InitTables /\ [][NextTables]_vars

InitOrder == OrderInit /\ GreatIdle /\ MergeIdle /\ GenIdle /\ SchedIdle
SpecOrder == InitOrder /\ [][NextTables]_vars

InitPipeline == PipelineInit /\ GreatIdle /\ GenIdle /\ SchedIdle
SpecPipeline == InitPipeline /\ [][NextPipeline]_vars

InitScenario == ScenarioInit /\ MergeIdle /\ AnnIdle /\ GenIdle /\ SchedIdle
SpecScenario == InitScenario /\ [][NextGreat]_vars

InitEdge ==
  /\ \/ EdgeGreatInit /\ MergeIdle /\ AnnIdle
     \/ EdgeMergeInit /\ GreatIdle /\ AnnIdle
  /\ GenIdle /\ SchedIdle
SpecEdge == InitEdge /\ [][NextEdge]_vars

InitGen == GenInit /\ GreatIdle /\ MergeIdle /\ AnnIdle /\ SchedIdle
SpecGen == InitGen /\ [][NextGen]_vars

InitSched == SchedInit /\ GreatIdle /\ MergeIdle /\ AnnIdle /\ GenIdle
SpecSched == InitSched /\ [][NextSched]_vars

====
